---- MODULE Spec2Model ----
(***************************************************************************)
(* Chat session lifecycle of the textbook's embedded assistant:            *)
(*   SessionManager (browser local storage), ChatAPI (HTTP client) and     *)
(*   the ChatWidget controller that composes them.                         *)
(* The column migration of the backend's user_profiles table is modelled   *)
(* beside them, over a database table of its own.                          *)
(*                                                                         *)
(* Text is a TLA+ string.  An optional value (null / undefined / a missing *)
(* storage key) is the empty tuple Absent, a present one is Some(v).       *)
(* A Date is [d |-> days, ms |-> milliseconds within the day]: 30 days in  *)
(* milliseconds does not fit the checker's integers, the pair does.        *)
(***************************************************************************)
EXTENDS Integers, Sequences, FiniteSets, TLC

VARIABLES
    storage,      \* localStorage: the three keys the chat client uses
    now,          \* the wall clock read by new Date() / Date.now()
    env,          \* execution context: "browser", "full" (a browser whose storage quota is used up),
                  \* "denied" (every storage access throws), "ssr" (no window)
    ret,          \* the code called directly: the last step, and for a call that has ended its argument and outcome
    mounted,      \* ChatWidget: the mount effect has run
    messages,     \* ChatWidget state: messages
    isLoading,    \* ChatWidget state: isLoading
    isOpen,       \* ChatWidget state: isOpen
    selectedText, \* ChatWidget state: selectedText
    session,      \* ChatWidget state: session
    inputValue,   \* ChatWidget state: inputValue
    showMenu,     \* ChatWidget state: showMenu
    inflight,     \* handleSend invocations suspended at their await, with what their closure captured
    pathname,     \* window.location.pathname
    last,         \* ChatWidget: the handler that has just run and its outcome (LastNone after any other step)
    userProfiles, \* the database: the column names of table user_profiles, Absent while the table does not exist
    pending,      \* ChatAPI called directly: per method, the call that has not settled yet and the await it is at
    migration     \* the column migration script: the await the running script is at and what it has done so far

vars == <<storage, now, env, ret, mounted, messages, isLoading, isOpen,
          selectedText, session, inputValue, showMenu, inflight, pathname, last,
          userProfiles, pending, migration>>

widgetVars == <<mounted, messages, isLoading, isOpen, selectedText, session,
                inputValue, showMenu, inflight, pathname, last>>

harnessVars == <<ret, userProfiles, pending, migration>>

(***************************************************************************)
(* Bounds of the model                                                     *)
(***************************************************************************)
MaxDay == 60        \* the clock stops advancing here
MaxMsgs == 2        \* a send is offered only while the list is shorter than this
MaxInflight == 2    \* suspended handleSend invocations the model keeps

(***************************************************************************)
(* Optional values                                                         *)
(***************************************************************************)
Absent == <<>>
Some(v) == <<v>>
IsSome(o) == o # <<>>
Get(o) == o[1]

(***************************************************************************)
(* Dates                                                                   *)
(***************************************************************************)
SESSION_EXPIRY_DAYS == 30

\* The time value of an Invalid Date; every valid instant of the model is at
\* day 0 or later. A relational comparison with NaN is false.
NaN == -1
InvalidDate == [d |-> NaN, ms |-> NaN]

\* A stored date field that is missing or holds text that is no date:
\* new Date(undefined) and new Date("soon") are both Invalid Dates.
UnparseableISO == [date |-> NaN, sec |-> 0, msec |-> 0]

\* Date relational comparison (a < b on the time values).
DateLT(a, b) ==
    /\ a.d # NaN /\ b.d # NaN
    /\ (a.d < b.d \/ (a.d = b.d /\ a.ms < b.ms))

\* A window one day short.
PlusDaysLessOne(t, n) == [d |-> t.d + n - 1, ms |-> t.ms]

\* new Date(t.getTime() + n * 24 * 60 * 60 * 1000)
PlusDays(t, n) == [d |-> t.d + n, ms |-> t.ms]

\* A serialisation that keeps whole seconds only.
toISOStringDroppingMillis(t) == [date |-> t.d, sec |-> t.ms \div 1000, msec |-> 0]

\* What a call that throws gives instead of a value: the error it throws.
RangeError == [throws |-> "RangeError: Invalid time value"]

\* toISOString throws a RangeError on an Invalid Date.
toISOStringThrows(t) == t.d = NaN

\* Date.prototype.toISOString: "YYYY-MM-DD" "T" "HH:mm:ss" "." "sss" "Z";
\* the date part, the whole seconds of the day and the three millisecond digits.
toISOString(t) ==
    IF toISOStringThrows(t) THEN RangeError
    ELSE [date |-> t.d, sec |-> t.ms \div 1000, msec |-> t.ms % 1000]

\* new Date(isoString)
NewDate(iso) ==
    IF iso.date = NaN THEN InvalidDate
    ELSE [d |-> iso.date, ms |-> iso.sec * 1000 + iso.msec]

(***************************************************************************)
(* JSON text kept in localStorage                                          *)
(***************************************************************************)
JSONstringify(v) == [wellFormed |-> TRUE, value |-> v]
JSONparseThrows(text) == ~text.wellFormed
JSONparse(text) == text.value

\* A stored text that is not JSON (JSON.parse throws a SyntaxError on it).
MalformedJSON == [wellFormed |-> FALSE, value |-> <<>>]

(***************************************************************************)
(* Exceptions: one thrown inside a try block is handled by its catch and   *)
(* does not leave the method; one thrown outside any try block does.       *)
(***************************************************************************)
EscapesUncaught(thrown, insideTry) == thrown

Escapes(thrown, insideTry) == thrown /\ ~insideTry

(***************************************************************************)
(* generateUUID: 31 hexadecimal digits drawn from Math.random; nothing     *)
(* relates one call's result to an earlier one's.                          *)
(***************************************************************************)
generateUUID == {"1b9d6bcd-bbfd-4b2d-9b5d-ab8dfbbd4bed", "9c5b94b1-35ad-49bb-b118-8e8fc24abf80"}

(***************************************************************************)
(* SessionManager                                                          *)
(*   Every operator takes the storage st and the execution context e and   *)
(*   gives the storage afterwards and/or the returned value.  q... say     *)
(*   whether that localStorage.setItem call throws (quota exceeded).       *)
(***************************************************************************)
EmptyStorage == [session |-> Absent, history |-> Absent, browserId |-> Absent]

\* JSON.stringify(session): the Dates become their ISO-8601 strings (Date.toJSON).
SessionToJSON(s) ==
    JSONstringify([id |-> s.id,
                   anonymous_browser_id |-> s.anonymous_browser_id,
                   created_at |-> toISOString(s.created_at),
                   expires_at |-> toISOString(s.expires_at),
                   page_context |-> s.page_context])

\* getSession whose expiry clean-up forgets the conversation record.
getSessionKeepingHistory(st, e, t) ==
    IF e # "browser" \/ ~IsSome(st.session) THEN [storage |-> st, ret |-> Absent]
    ELSE IF JSONparseThrows(Get(st.session)) THEN [storage |-> st, ret |-> Absent]
    ELSE LET parsed == JSONparse(Get(st.session)) IN
         IF DateLT(NewDate(parsed.expires_at), t)
         THEN [storage |-> [st EXCEPT !.session = Absent], ret |-> Absent]
         ELSE [storage |-> st, ret |-> Some(parsed)]

getSession(st, e, t) ==
    IF e = "ssr" THEN [storage |-> st, ret |-> Absent]
    ELSE IF e = "denied" THEN [storage |-> st, ret |-> Absent]
    ELSE IF ~IsSome(st.session) THEN [storage |-> st, ret |-> Absent]
    ELSE IF JSONparseThrows(Get(st.session)) THEN [storage |-> st, ret |-> Absent]
    ELSE LET parsed == JSONparse(Get(st.session)) IN
         IF DateLT(NewDate(parsed.expires_at), t)
         THEN [storage |-> [st EXCEPT !.session = Absent, !.history = Absent],
               ret |-> Absent]
         ELSE [storage |-> st, ret |-> Some(parsed)]

\* Whether a getSession call ends by raising: localStorage.getItem throws where
\* storage is denied, JSON.parse throws on malformed text; both are inside the try.
getSessionRaises(st, e) ==
    e # "ssr"
    /\ Escapes(e = "denied" \/ (IsSome(st.session) /\ JSONparseThrows(Get(st.session))),
               TRUE)

\* getOrCreateBrowserId that never reads the stored identifier.
getOrCreateBrowserIdAlwaysNew(st, e, g1, g2, q) ==
    IF e = "ssr" THEN [storage |-> st, ret |-> g1]
    ELSE IF e = "denied" \/ q THEN [storage |-> st, ret |-> g2]
    ELSE [storage |-> [st EXCEPT !.browserId = Some(g1)], ret |-> g1]

\* g1 is the generateUUID() of the "not stored yet" branch, g2 the one of the catch.
getOrCreateBrowserId(st, e, g1, g2, q) ==
    IF e = "ssr" THEN [storage |-> st, ret |-> g1]
    ELSE IF e = "denied" THEN [storage |-> st, ret |-> g2]
    ELSE IF IsSome(st.browserId) /\ Get(st.browserId) # ""
         THEN [storage |-> st, ret |-> Get(st.browserId)]
    ELSE IF q THEN [storage |-> st, ret |-> g2]
    ELSE [storage |-> [st EXCEPT !.browserId = Some(g1)], ret |-> g1]

\* createSession that builds and returns the session without storing it.
createSessionNotPersisting(st, e, t, pageContext, id, g1, g2, qB, qS) ==
    LET b == getOrCreateBrowserId(st, e, g1, g2, qB) IN
    [storage |-> b.storage,
     ret |-> [id |-> id, anonymous_browser_id |-> b.ret, created_at |-> t,
              expires_at |-> PlusDays(t, SESSION_EXPIRY_DAYS),
              page_context |-> pageContext]]

createSession(st, e, t, pageContext, id, g1, g2, qB, qS) ==
    LET b == getOrCreateBrowserId(st, e, g1, g2, qB)
        s == [id |-> id,
              anonymous_browser_id |-> b.ret,
              created_at |-> t,
              expires_at |-> PlusDays(t, SESSION_EXPIRY_DAYS),
              page_context |-> pageContext]
    IN  IF e = "ssr" \/ e = "denied" \/ qS
        THEN [storage |-> b.storage, ret |-> s]
        ELSE [storage |-> [b.storage EXCEPT !.session = Some(SessionToJSON(s))], ret |-> s]

\* Whether a createSession call ends by raising: the accesses of getOrCreateBrowserId
\* (denied storage, quota on its setItem) and the setItem of the session are each
\* inside a try.
createSessionRaises(st, e, qB, qS) ==
    e # "ssr"
    /\ \/ Escapes(e = "denied" \/ (~IsSome(st.browserId) /\ qB), TRUE)
       \/ Escapes(e = "denied" \/ qS, TRUE)

\* The map below throws when toISOString throws for one of the messages.
SerializeMessagesThrows(msgs) ==
    \E i \in 1..Len(msgs) : toISOStringThrows(msgs[i].timestamp)

\* messages.map(msg => ({...msg, timestamp: msg.timestamp.toISOString()}))
SerializeMessages(msgs) ==
    IF SerializeMessagesThrows(msgs) THEN RangeError
    ELSE [i \in 1..Len(msgs) |->
             [msgs[i] EXCEPT !.timestamp = toISOString(msgs[i].timestamp)]]

\* messages.map(msg => ({...msg, timestamp: new Date(msg.timestamp)}))
DeserializeMessages(stored) ==
    [i \in 1..Len(stored) |-> [stored[i] EXCEPT !.timestamp = NewDate(stored[i].timestamp)]]

\* saveConversation without the execution-context check.
saveConversationAnywhere(st, e, msgs, q) ==
    IF SerializeMessagesThrows(msgs) \/ q THEN st ELSE [st EXCEPT !.history = Some(JSONstringify(SerializeMessages(msgs)))]

\* saveConversation; q is whether its setItem throws. Whatever throws inside the
\* try (the map's toISOString, setItem) is caught and nothing is stored.
saveConversation(st, e, msgs, q) ==
    IF e = "ssr" THEN st
    ELSE IF SerializeMessagesThrows(msgs) THEN st
    ELSE IF e = "denied" \/ q THEN st
    ELSE [st EXCEPT !.history = Some(JSONstringify(SerializeMessages(msgs)))]

getConversationHistory(st, e) ==
    IF e = "ssr" THEN Absent
    ELSE IF e = "denied" THEN Absent
    ELSE IF ~IsSome(st.history) THEN Absent
    ELSE IF JSONparseThrows(Get(st.history)) THEN Absent
    ELSE Some(DeserializeMessages(JSONparse(Get(st.history))))

\* Whether something throws inside the try of saveConversation: the map's
\* toISOString or setItem (q: the quota). Without a window the method returns
\* before the try.
saveConversationThrows(e, msgs, q) ==
    e # "ssr" /\ (SerializeMessagesThrows(msgs) \/ e = "denied" \/ q)

\* Whether a saveConversation call ends by raising (the map and setItem are inside
\* the try); q is whether one of them throws.
saveConversationRaises(st, e, q) ==
    e # "ssr" /\ Escapes(e = "denied" \/ q, TRUE)

\* Whether a getConversationHistory call ends by raising (getItem and JSON.parse
\* are inside the try).
getConversationHistoryRaises(st, e) ==
    e # "ssr"
    /\ Escapes(e = "denied" \/ (IsSome(st.history) /\ JSONparseThrows(Get(st.history))),
               TRUE)

\* Whether clearConversation or deleteSession ends by raising (removeItem is inside
\* the try).
removeRaises(st, e) ==
    e # "ssr" /\ Escapes(e = "denied", TRUE)

\* clearConversation that removes the session record as well.
clearConversationAndSession(st, e) ==
    IF e = "ssr" \/ e = "denied" THEN st
    ELSE [st EXCEPT !.history = Absent, !.session = Absent]

clearConversation(st, e) ==
    IF e = "ssr" THEN st
    ELSE IF e = "denied" THEN st
    ELSE [st EXCEPT !.history = Absent]

\* A deleteSession that removes the message list only.
deleteSessionHistoryOnly(st, e) ==
    IF e = "ssr" THEN st
    ELSE IF e = "denied" THEN st
    ELSE [st EXCEPT !.history = Absent]

\* deleteSession: removeItem of SESSION_KEY and of HISTORY_KEY
deleteSession(st, e) ==
    IF e = "ssr" THEN st
    ELSE IF e = "denied" THEN st
    ELSE [st EXCEPT !.session = Absent, !.history = Absent]

(***************************************************************************)
(* The clock                                                               *)
(***************************************************************************)
Epoch == [d |-> 0, ms |-> 0]

\* No handler of the widget has just run.
LastNone == [op |-> "none", ok |-> FALSE, status |-> 0, threw |-> FALSE, requests |-> 0]

uiVars == <<mounted, messages, isLoading, isOpen, selectedText, session, inputValue,
            showMenu, inflight, pathname>>

\* Time passes: the clock moves on by more than the length of a session's life.
TickPast ==
    /\ now.d + SESSION_EXPIRY_DAYS + 1 <= MaxDay
    /\ now' = [now EXCEPT !.d = @ + SESSION_EXPIRY_DAYS + 1]
    /\ last' = LastNone
    /\ UNCHANGED <<storage, env, harnessVars, uiVars>>

(***************************************************************************)
(* Messages and page contexts the SessionManager is called with            *)
(***************************************************************************)
Citation1 == [id |-> "c1", chapter |-> "module-1", section |-> Some("nodes"),
              content_excerpt |-> "A node is a process", relevance_score |-> 91]
Citation2 == [id |-> "c2", chapter |-> "module-2", section |-> Absent,
              content_excerpt |-> "Gazebo simulates", relevance_score |-> 64]

SampleUser == [id |-> "0:999", type |-> "user", content |-> "What is ROS?",
               sources |-> Absent, confidence |-> Absent,
               timestamp |-> [d |-> 0, ms |-> 999]]
SampleAssistant == [id |-> "msg_1", type |-> "assistant", content |-> "ROS is a middleware",
                    sources |-> Some(<<Citation1, Citation2>>), confidence |-> Some(87),
                    timestamp |-> [d |-> 0, ms |-> 1001]]
SampleError == [id |-> "error-30:5", type |-> "error", content |-> "API error: 500",
                sources |-> Absent, confidence |-> Absent,
                timestamp |-> [d |-> 30, ms |-> 5]]

\* A message whose timestamp is an Invalid Date, as getConversationHistory makes
\* one from a stored message without a usable timestamp.
SampleUndated == [id |-> "m1", type |-> "user", content |-> "hi",
                  sources |-> Absent, confidence |-> Absent,
                  timestamp |-> InvalidDate]

SampleLists == {<<>>, <<SampleUser, SampleAssistant>>,
                <<SampleUser, SampleAssistant, SampleUser, SampleError>>,
                <<SampleUndated>>}

PageContexts == {Absent, Some("/robotics/docs/module-1/intro")}

NoRet == [op |-> "none", session |-> Absent, history |-> Absent, arg |-> Absent,
          threw |-> FALSE, raised |-> FALSE, pre |-> EmptyStorage, prev |-> Absent,
          reply |-> Absent, outcome |-> Absent, requests |-> <<>>]

\* The identifiers of the session the latest createSession call returned.
PrevCreated ==
    IF ret.op = "createSession"
    THEN Some([id |-> Get(ret.session).id,
               anonymous_browser_id |-> Get(ret.session).anonymous_browser_id])
    ELSE ret.prev

\* A direct call's record: the storage it started from and the identifiers the
\* latest createSession call before it returned.
Called(op) == [NoRet EXCEPT !.op = op, !.pre = storage, !.prev = PrevCreated]

\* The two methods of ChatAPI a caller can have outstanding.
Callers == {"query", "querySelection"}

\* No call of the method is outstanding.
Settled == [pc |-> "settled", status |-> 0, retryAfter |-> Absent]

NoCalls == [caller \in Callers |-> Settled]

\* The migration script is not running.
NotRunning == [pc |-> "exited", step |-> 0, alters |-> <<>>, undisturbed |-> TRUE,
               prev |-> Absent]

\* Time passes: the clock moves on by exactly the length of a session's life.
Tick ==
    /\ now.d + SESSION_EXPIRY_DAYS <= MaxDay
    /\ now' = [now EXCEPT !.d = @ + SESSION_EXPIRY_DAYS]
    /\ ret' = [NoRet EXCEPT !.prev = PrevCreated]
    /\ UNCHANGED <<storage, env, widgetVars, userProfiles, pending, migration>>

(***************************************************************************)
(* SessionManager called directly, one call per step                       *)
(***************************************************************************)
CallGetSession ==
    LET r == getSession(storage, env, now) IN
    /\ storage' = r.storage
    /\ ret' = [Called("getSession") EXCEPT !.session = r.ret,
                                           !.raised = getSessionRaises(storage, env)]
    /\ UNCHANGED <<now, env, widgetVars, userProfiles, pending, migration>>

CallCreateSession ==
    \* g: the one generateUUID() result getOrCreateBrowserId can return in this call
    \E pageContext \in PageContexts, id \in generateUUID, g \in generateUUID,
       qB \in BOOLEAN, qS \in BOOLEAN :
        LET r == createSession(storage, env, now, pageContext, id, g, g, qB, qS) IN
        /\ storage' = r.storage
        /\ ret' = [Called("createSession") EXCEPT
                      !.session = Some(r.ret),
                      \* the setItem of the session threw inside its try (never
                      \* without a window, where the try is not entered)
                      !.threw = (env # "ssr" /\ (env = "denied" \/ qS)),
                      !.raised = createSessionRaises(storage, env, qB, qS)]
        /\ UNCHANGED <<now, env, widgetVars, userProfiles, pending, migration>>

CallSaveConversation ==
    \E msgs \in SampleLists, q \in BOOLEAN :
        /\ storage' = saveConversation(storage, env, msgs, q)
        /\ ret' = [Called("saveConversation") EXCEPT
                      !.arg = Some(msgs),
                      !.threw = saveConversationThrows(env, msgs, q),
                      !.raised = saveConversationRaises(storage, env,
                                     SerializeMessagesThrows(msgs) \/ q)]
        /\ UNCHANGED <<now, env, widgetVars, userProfiles, pending, migration>>

CallGetConversationHistory ==
    /\ ret' = [Called("getConversationHistory") EXCEPT
                  !.history = getConversationHistory(storage, env),
                  !.raised = getConversationHistoryRaises(storage, env)]
    /\ UNCHANGED <<storage, now, env, widgetVars, userProfiles, pending, migration>>

CallClearConversation ==
    /\ storage' = clearConversation(storage, env)
    /\ ret' = [Called("clearConversation") EXCEPT !.raised = removeRaises(storage, env)]
    /\ UNCHANGED <<now, env, widgetVars, userProfiles, pending, migration>>

CallDeleteSession ==
    /\ storage' = deleteSession(storage, env)
    /\ ret' = [Called("deleteSession") EXCEPT !.raised = removeRaises(storage, env)]
    /\ UNCHANGED <<now, env, widgetVars, userProfiles, pending, migration>>

\* Something else on the origin leaves text that is not JSON under one of the keys.
ForeignWrite ==
    /\ env = "browser"
    /\ \E key \in {"session", "history"} :
        /\ storage[key] # Some(MalformedJSON)
        /\ storage' = [storage EXCEPT ![key] = Some(MalformedJSON)]
    /\ ret' = [NoRet EXCEPT !.prev = PrevCreated]
    /\ UNCHANGED <<now, env, widgetVars, userProfiles, pending, migration>>

(***************************************************************************)
(* String helpers of the widget and the HTTP client                        *)
(***************************************************************************)
\* The characters String.prototype.trim strips, among the characters a string
\* of the model can hold. The strings of the model are ASCII; of ECMAScript's
\* WhiteSpace and LineTerminator that leaves space, tab, line feed, vertical
\* tab, form feed and carriage return. The others (U+00A0, U+1680, U+2000 to
\* U+200A, U+2028, U+2029, U+202F, U+205F, U+3000, U+FEFF) are outside the
\* alphabet of the model.
IsSpace(c) == c \in {" ", "\t", "\n", "\r", "\f", ""}

RECURSIVE TrimStart(_)
TrimStart(s) ==
    IF Len(s) > 0 /\ IsSpace(SubSeq(s, 1, 1)) THEN TrimStart(SubSeq(s, 2, Len(s))) ELSE s

RECURSIVE TrimEnd(_)
TrimEnd(s) ==
    IF Len(s) > 0 /\ IsSpace(SubSeq(s, Len(s), Len(s)))
    THEN TrimEnd(SubSeq(s, 1, Len(s) - 1)) ELSE s

\* A trim that removes nothing.
TrimNothing(s) == s

\* String.prototype.trim
Trim(s) == TrimEnd(TrimStart(s))

\* s.slice(0, n)
SliceTo(s, n) == IF Len(s) <= n THEN s ELSE SubSeq(s, 1, n)

\* s.split('/'): the pieces between the slashes, in order.
RECURSIVE SplitFrom(_, _, _)
SplitFrom(s, i, piece) ==
    IF i > Len(s) THEN <<piece>>
    ELSE IF SubSeq(s, i, i) = "/" THEN <<piece>> \o SplitFrom(s, i + 1, "")
    ELSE SplitFrom(s, i + 1, piece \o SubSeq(s, i, i))

Split(s) == SplitFrom(s, 1, "")

\* Date.now().toString(): the decimal milliseconds since the epoch, written
\* here as "<days>:<milliseconds of the day>" (one string per instant).
DateNowString(t) == ToString(t.d) \o ":" \o ToString(t.ms)

(***************************************************************************)
(* ChatAPI                                                                 *)
(*   A reply is what fetch settles with: an HTTP response (status, the     *)
(*   Retry-After header, how response.json() settles on the body, the      *)
(*   body's detail and, for an answer, its data) or a network failure.     *)
(***************************************************************************)
\* How response.json() settles: with an object, with null (the body is the JSON
\* text null), or rejecting with the engine's SyntaxError for a body that is not
\* JSON; the error's message depends on the body and on the engine.
JsonObject == [parses |-> TRUE, null |-> FALSE, message |-> ""]
JsonNull == [parses |-> TRUE, null |-> TRUE, message |-> ""]
NotJson(message) == [parses |-> FALSE, null |-> FALSE, message |-> message]

HttpReply(status, retryAfter, json, detail, data) ==
    [kind |-> "http", status |-> status, retryAfter |-> retryAfter, json |-> json,
     detail |-> detail, data |-> data, error |-> ""]

\* fetch rejects with a TypeError whose message is the engine's ("Failed to fetch",
\* "fetch failed").
NetworkFailure(message) ==
    [kind |-> "network", status |-> 0, retryAfter |-> Absent, json |-> NotJson(""),
     detail |-> Absent, data |-> Absent, error |-> message]

\* fetch(`${baseUrl}/api/v1/chat/query`, {method: 'POST', body: JSON.stringify({...})})
QueryRequest(question, sessionId, pageContext) ==
    [endpoint |-> "/api/v1/chat/query",
     body |-> [question |-> question, session_id |-> sessionId,
               page_context |-> pageContext]]

\* fetch(`${baseUrl}/api/v1/chat/selection`, {method: 'POST', body: JSON.stringify({...})})
SelectionRequest(selText, question, sessionId, chapter, section) ==
    [endpoint |-> "/api/v1/chat/selection",
     body |-> [selected_text |-> selText, question |-> question,
               session_id |-> sessionId, chapter |-> chapter,
               section |-> IF IsSome(section) /\ Get(section) # "" THEN Get(section) ELSE ""]]

\* The detail of an error body is a JSON value: a string, or (the backend
\* framework's validation errors) an array of objects each carrying a msg.
DetailString(text) == [type |-> "string", text |-> text]
DetailArray(msgs) == [type |-> "array", items |-> msgs]

\* error.detail || ...: the empty string is falsy, an array (empty or not) is
\* truthy.
Truthy(v) == v.type # "string" \/ v.text # ""

\* Array.prototype.join of n objects: each is "[object Object]", separated by ",".
RECURSIVE JoinObjects(_)
JoinObjects(n) ==
    IF n = 0 THEN ""
    ELSE IF n = 1 THEN "[object Object]"
    ELSE JoinObjects(n - 1) \o ",[object Object]"

\* new Error(v).message: String(v); for an array its elements joined, "" for the
\* empty array.
StringOf(v) == IF v.type = "string" THEN v.text ELSE JoinObjects(Len(v.items))

\* error.detail || `API error: ${response.status}` with error the outcome of
\* response.json().catch(() => ({})), as the message of the Error thrown. With
\* error the parsed body null, error.detail throws a TypeError (the wording of V8).
ErrorOf(reply) ==
    IF reply.json.null THEN "Cannot read properties of null (reading 'detail')"
    ELSE IF reply.json.parses /\ IsSome(reply.detail) /\ Truthy(Get(reply.detail))
         THEN StringOf(Get(reply.detail))
         ELSE "API error: " \o ToString(reply.status)

\* A method that issues its request again when the response is not a success.
FetchesRetrying(request, reply) ==
    IF reply.kind = "http" /\ reply.status >= 200 /\ reply.status <= 299
    THEN <<request>> ELSE <<request, request>>

\* The fetch calls one call of query or querySelection makes: the one await fetch
\* at its head; no loop, no second call on any path.
Fetches(request, reply) == <<request>>

Resolved(value) == [ok |-> TRUE, value |-> Some(value), message |-> ""]
Rejected(message) == [ok |-> FALSE, value |-> Absent, message |-> message]

\* return response.json() on a success response.
BodyOf(reply) ==
    IF ~reply.json.parses THEN Rejected(reply.json.message)
    ELSE IF reply.json.null THEN Resolved([null |-> TRUE])
    ELSE Resolved(Get(reply.data))

\* response.ok
ResponseOk(reply) == reply.status >= 200 /\ reply.status <= 299

\* A query that lets the body's detail replace the rate-limit message.
queryDetailFirst(reply) ==
    IF reply.kind = "network" THEN Rejected(reply.error)
    ELSE IF ~ResponseOk(reply)
         THEN IF reply.json.parses /\ ~reply.json.null
                 /\ IsSome(reply.detail) /\ Truthy(Get(reply.detail))
              THEN Rejected(StringOf(Get(reply.detail)))
              ELSE IF reply.status = 429
                   THEN Rejected("Rate limited. Please try again in "
                                 \o (IF IsSome(reply.retryAfter) /\ Get(reply.retryAfter) # ""
                                     THEN Get(reply.retryAfter) ELSE "60")
                                 \o " seconds.")
                   ELSE Rejected(ErrorOf(reply))
    ELSE BodyOf(reply)

\* How the promise returned by query settles for a reply.
query(reply) ==
    IF reply.kind = "network" THEN Rejected(reply.error)
    ELSE IF ~ResponseOk(reply)
         THEN IF reply.status = 429
              THEN Rejected("Rate limited. Please try again in "
                            \o (IF IsSome(reply.retryAfter) /\ Get(reply.retryAfter) # ""
                                THEN Get(reply.retryAfter) ELSE "60")
                            \o " seconds.")
              ELSE Rejected(ErrorOf(reply))
    ELSE BodyOf(reply)

\* How the promise returned by querySelection settles for a reply.
querySelection(reply) ==
    IF reply.kind = "network" THEN Rejected(reply.error)
    ELSE IF ~ResponseOk(reply)
         THEN IF reply.status = 429
              THEN Rejected("Rate limited. Please try again in "
                            \o (IF IsSome(reply.retryAfter) /\ Get(reply.retryAfter) # ""
                                THEN Get(reply.retryAfter) ELSE "60")
                            \o " seconds.")
              ELSE Rejected(ErrorOf(reply))
    ELSE BodyOf(reply)

(***************************************************************************)
(* What the user and the backend feed the widget                           *)
(***************************************************************************)
Inputs == {"  ", "explain this"}

Selections == {"", "short text", " Newton's second law states F=ma "}

Answer(sessionId) ==
    [answer |-> "Force equals mass times acceleration",
     sources |-> <<Citation1, Citation2>>,
     session_id |-> sessionId,
     message_id |-> "msg_1",
     confidence |-> 87]

ReplyAnswer(sessionId) == HttpReply(200, Absent, JsonObject, Absent, Some(Answer(sessionId)))
ReplyServerError == HttpReply(500, Absent, JsonObject, Absent, Absent)

WidgetReplies(sessionId) == {ReplyAnswer(sessionId), ReplyServerError}

(***************************************************************************)
(* ChatWidget                                                              *)
(***************************************************************************)
\* Whether a localStorage.setItem of the widget throws, as the set of outcomes the
\* write can have: in a storage whose quota is used up a write throws when it needs
\* more room than it frees (a new key, a longer value) and goes through otherwise.
QuotaExceeded == IF env = "full" THEN BOOLEAN ELSE {FALSE}

\* A settled call that stays among the outstanding ones.
RemoveNone(seq, i) == seq

\* The suspended calls without the i-th, which has settled.
RemoveAt(seq, i) == SubSeq(seq, 1, i - 1) \o SubSeq(seq, i + 1, Len(seq))

\* A textarea that stays enabled while a query is outstanding.
TextareaNeverDisabled == FALSE

\* <textarea disabled={isLoading}>
TextareaDisabled == isLoading

\* <button disabled={isLoading || !inputValue.trim()}>
SendBtnDisabled == isLoading \/ Trim(inputValue) = ""

\* A chapter taken from the first segment of the path.
ChapterFirstSegment(path) ==
    LET parts == Split(path) IN
    IF Len(parts) >= 2 /\ parts[2] # "" THEN parts[2] ELSE "Unknown"

\* window.location.pathname.split('/')[2] || 'Unknown'
Chapter(path) ==
    LET parts == Split(path) IN
    IF Len(parts) >= 3 /\ parts[3] # "" THEN parts[3] ELSE "Unknown"

\* A mount effect that only looks for a stored session and never creates one.
MountWithoutCreate ==
    /\ ~mounted
    /\ LET existingSession == getSession(storage, env, now)
           savedMessages == getConversationHistory(existingSession.storage, env)
       IN  /\ storage' = existingSession.storage
           /\ session' = existingSession.ret
           /\ messages' = IF IsSome(savedMessages) THEN Get(savedMessages) ELSE messages
           /\ last' = [LastNone EXCEPT !.op = "Mount", !.ok = IsSome(existingSession.ret)]
    /\ mounted' = TRUE
    /\ UNCHANGED <<now, env, harnessVars, isLoading, isOpen, selectedText, inputValue,
                   showMenu, inflight, pathname>>

\* A mount effect that creates a session whether or not one is stored.
MountAlwaysCreate ==
    /\ ~mounted
    /\ LET existingSession == getSession(storage, env, now) IN
        \E r \in {createSession(existingSession.storage, env, now, Absent, id, g, g, qB, qS) :
                     id \in generateUUID, g \in generateUUID,
                     qB \in QuotaExceeded, qS \in QuotaExceeded} :
            LET savedMessages == getConversationHistory(r.storage, env) IN
            /\ storage' = r.storage
            /\ session' = Some(r.ret)
            /\ messages' = IF IsSome(savedMessages) THEN Get(savedMessages) ELSE messages
            /\ last' = [LastNone EXCEPT !.op = "Mount", !.ok = IsSome(existingSession.ret)]
    /\ mounted' = TRUE
    /\ UNCHANGED <<now, env, harnessVars, isLoading, isOpen, selectedText, inputValue,
                   showMenu, inflight, pathname>>

\* The mount effect: resume the stored session or create one, then load the history.
Mount ==
    /\ ~mounted
    /\ LET existingSession == getSession(storage, env, now) IN
        \E r \in IF IsSome(existingSession.ret)
                  THEN {[storage |-> existingSession.storage, ret |-> Get(existingSession.ret)]}
                  ELSE {createSession(existingSession.storage, env, now, Absent, id, g, g,
                                      qB, qS) :
                           id \in generateUUID, g \in generateUUID,
                           qB \in QuotaExceeded, qS \in QuotaExceeded} :
            LET savedMessages == getConversationHistory(r.storage, env) IN
            /\ storage' = r.storage
            /\ session' = Some(r.ret)
            /\ messages' = IF IsSome(savedMessages) THEN Get(savedMessages) ELSE messages
            /\ last' = [LastNone EXCEPT !.op = "Mount", !.ok = IsSome(existingSession.ret)]
    /\ mounted' = TRUE
    /\ UNCHANGED <<now, env, harnessVars, isLoading, isOpen, selectedText, inputValue,
                   showMenu, inflight, pathname>>

\* A page reload: the component and its suspended handlers are gone, storage stays.
Reload ==
    /\ mounted
    /\ mounted' = FALSE
    /\ messages' = <<>>
    /\ isLoading' = FALSE
    /\ isOpen' = FALSE
    /\ selectedText' = ""
    /\ session' = Absent
    /\ inputValue' = ""
    /\ showMenu' = FALSE
    /\ inflight' = <<>>
    /\ last' = [LastNone EXCEPT !.op = "Reload"]
    /\ UNCHANGED <<storage, now, env, harnessVars, pathname>>

\* A capture that also takes a selection of exactly ten characters.
SelectionAfterAtLeastTen(current, sel) ==
    LET selected == Trim(sel) IN
    IF selected # "" /\ Len(selected) >= 10 THEN selected ELSE current

\* The active selection after a mouseup over the window selection sel:
\* selected = getSelection().toString().trim();
\* if (selected && selected.length > 10) setSelectedText(selected)
SelectionAfter(current, sel) ==
    LET selected == Trim(sel) IN
    IF selected # "" /\ Len(selected) > 10 THEN selected ELSE current

\* handleSelection, the document's mouseup listener
handleSelection ==
    /\ mounted
    /\ \E sel \in Selections :
        selectedText' = SelectionAfter(selectedText, sel)
    /\ UNCHANGED <<storage, now, env, harnessVars, mounted, messages, isLoading, isOpen,
                   session, inputValue, showMenu, inflight, pathname>>
    /\ last' = LastNone

\* A close button that also abandons the outstanding query.
ToggleOpenCancelling ==
    /\ mounted
    /\ isOpen' = ~isOpen
    /\ inflight' = IF isOpen THEN <<>> ELSE inflight
    /\ isLoading' = IF isOpen THEN FALSE ELSE isLoading
    /\ UNCHANGED <<storage, now, env, harnessVars, mounted, messages,
                   selectedText, session, inputValue, showMenu, pathname>>
    /\ last' = LastNone

\* The floating button (closed) and the X button (open)
ToggleOpen ==
    /\ mounted
    /\ isOpen' = ~isOpen
    /\ UNCHANGED <<storage, now, env, harnessVars, mounted, messages, isLoading,
                   selectedText, session, inputValue, showMenu, inflight, pathname>>
    /\ last' = LastNone

\* The menu button: setShowMenu(!showMenu)
ToggleMenu ==
    /\ mounted /\ isOpen
    /\ showMenu' = ~showMenu
    /\ UNCHANGED <<storage, now, env, harnessVars, mounted, messages, isLoading, isOpen,
                   selectedText, session, inputValue, inflight, pathname>>
    /\ last' = LastNone

\* The textarea's onChange: setInputValue(e.target.value.slice(0, 500))
TypeInput ==
    /\ mounted /\ isOpen /\ ~TextareaDisabled
    /\ \E v \in Inputs : inputValue' = SliceTo(v, 500)
    /\ UNCHANGED <<storage, now, env, harnessVars, mounted, messages, isLoading, isOpen,
                   selectedText, session, showMenu, inflight, pathname>>
    /\ last' = LastNone

\* handleSend(question, useSelection), up to its await; op names the control used.
handleSend(op, question, useSelection) ==
    IF Trim(question) = "" \/ ~IsSome(session) \/ ~mounted
    THEN /\ last' = [LastNone EXCEPT !.op = op, !.ok = FALSE]
         /\ UNCHANGED <<storage, now, env, harnessVars, mounted, messages, isLoading,
                        isOpen, selectedText, session, inputValue, showMenu, inflight,
                        pathname>>
    ELSE LET userMessage == [id |-> DateNowString(now), type |-> "user",
                             content |-> question, sources |-> Absent,
                             confidence |-> Absent, timestamp |-> now]
             selection == useSelection /\ selectedText # ""
             request == IF selection
                        THEN SelectionRequest(selectedText, question, Get(session).id,
                                              Chapter(pathname), Absent)
                        ELSE QueryRequest(question, Get(session).id, Some(pathname))
             entry == [base |-> messages, userMessage |-> userMessage,
                       kind |-> IF selection THEN "selection" ELSE "query",
                       request |-> request, selectedText |-> selectedText]
         IN  /\ inputValue' = ""
             /\ messages' = Append(messages, userMessage)
             /\ isLoading' = TRUE
             /\ inflight' = Append(inflight, entry)
             /\ last' = [LastNone EXCEPT !.op = op, !.ok = TRUE]
             /\ UNCHANGED <<storage, now, env, harnessVars, mounted, isOpen, selectedText,
                            session, showMenu, pathname>>

\* Enter in the textarea: onKeyDown -> handleSend(inputValue); a disabled textarea gets no key.
PressEnter ==
    /\ mounted /\ isOpen
    /\ Len(messages) < MaxMsgs /\ Len(inflight) < MaxInflight
    /\ IF TextareaDisabled
       THEN /\ last' = [LastNone EXCEPT !.op = "PressEnter", !.ok = FALSE]
            /\ UNCHANGED <<storage, now, env, harnessVars, mounted, messages, isLoading,
                           isOpen, selectedText, session, inputValue, showMenu, inflight,
                           pathname>>
       ELSE handleSend("PressEnter", inputValue, FALSE)

\* The send button: onClick -> handleSend(inputValue); a disabled button gets no click.
ClickSend ==
    /\ mounted /\ isOpen
    /\ Len(messages) < MaxMsgs /\ Len(inflight) < MaxInflight
    /\ IF SendBtnDisabled
       THEN /\ last' = [LastNone EXCEPT !.op = "ClickSend", !.ok = FALSE]
            /\ UNCHANGED <<storage, now, env, harnessVars, mounted, messages, isLoading,
                           isOpen, selectedText, session, inputValue, showMenu, inflight,
                           pathname>>
       ELSE handleSend("ClickSend", inputValue, FALSE)

\* An assistant message that lists the citations last to first.
AssistantMessageSourcesReversed(response, t) ==
    [id |-> response.message_id, type |-> "assistant", content |-> response.answer,
     sources |-> Some([i \in 1..Len(response.sources) |->
                          response.sources[Len(response.sources) + 1 - i]]),
     confidence |-> Some(response.confidence), timestamp |-> t]

\* The assistant message handleSend builds from a response.
AssistantMessage(response, t) ==
    [id |-> response.message_id, type |-> "assistant", content |-> response.answer,
     sources |-> Some(response.sources), confidence |-> Some(response.confidence),
     timestamp |-> t]

\* A catch that drops the failure's own message.
ErrorMessageGeneric(errorMsg, t) ==
    [id |-> "error-" \o DateNowString(t), type |-> "error",
     content |-> "Failed to get response", sources |-> Absent, confidence |-> Absent,
     timestamp |-> t]

\* The error message handleSend's catch builds from the failure's message.
ErrorMessage(errorMsg, t) ==
    [id |-> "error-" \o DateNowString(t), type |-> "error", content |-> errorMsg,
     sources |-> Absent, confidence |-> Absent, timestamp |-> t]

\* The list handed to saveConversation: [...messages, userMessage, assistantMessage],
\* where messages is the array the suspended handleSend captured when it was called.
SavedOnSuccess(entry, assistantMessage) ==
    entry.base \o <<entry.userMessage, assistantMessage>>

\* How the awaited call of a suspended handleSend settles for a reply.
Settle(entry, reply) ==
    IF entry.kind = "selection" THEN querySelection(reply) ELSE query(reply)

\* handleSend after its await, the call having resolved.
handleSendResolved ==
    /\ mounted
    /\ \E i \in 1..Len(inflight) :
        LET entry == inflight[i] IN
        \E reply \in WidgetReplies(entry.request.body.session_id), q \in QuotaExceeded :
            LET outcome == Settle(entry, reply)
                assistantMessage == AssistantMessage(Get(outcome.value), now)
            IN  /\ outcome.ok
                /\ messages' = Append(messages, assistantMessage)
                /\ storage' = saveConversation(storage, env,
                                               SavedOnSuccess(entry, assistantMessage), q)
                /\ selectedText' = ""
                /\ isLoading' = FALSE
                /\ inflight' = RemoveAt(inflight, i)
                /\ last' = [LastNone EXCEPT !.op = "handleSendResolved", !.ok = TRUE,
                                            !.status = reply.status,
                                            !.threw = saveConversationThrows(env,
                                                          SavedOnSuccess(entry, assistantMessage), q),
                                            !.requests = Len(Fetches(entry.request, reply))]
    /\ UNCHANGED <<now, env, harnessVars, mounted, isOpen, session, inputValue, showMenu,
                   pathname>>

\* A failure path without the finally: the loading flag is left set.
handleSendRejectedStillLoading ==
    /\ mounted
    /\ \E i \in 1..Len(inflight) :
        LET entry == inflight[i] IN
        \E reply \in WidgetReplies(entry.request.body.session_id) :
            LET outcome == Settle(entry, reply) IN
            /\ ~outcome.ok
            /\ messages' = Append(messages, ErrorMessage(outcome.message, now))
            /\ isLoading' = isLoading
            /\ inflight' = RemoveAt(inflight, i)
            /\ last' = [LastNone EXCEPT !.op = "handleSendRejected", !.ok = FALSE,
                                        !.status = reply.status,
                                        !.requests = Len(Fetches(entry.request, reply))]
    /\ UNCHANGED <<storage, now, env, harnessVars, mounted, isOpen, selectedText, session,
                   inputValue, showMenu, pathname>>

\* A catch that puts the error entry in the place of the question it answers.
handleSendRejectedReplacingQuestion ==
    /\ mounted
    /\ \E i \in 1..Len(inflight) :
        LET entry == inflight[i] IN
        \E reply \in WidgetReplies(entry.request.body.session_id) :
            LET outcome == Settle(entry, reply) IN
            /\ ~outcome.ok
            /\ messages' = Append(SubSeq(messages, 1, Len(messages) - 1),
                                  ErrorMessage(outcome.message, now))
            /\ isLoading' = FALSE
            /\ inflight' = RemoveAt(inflight, i)
            /\ last' = [LastNone EXCEPT !.op = "handleSendRejected", !.ok = FALSE,
                                        !.status = reply.status,
                                        !.requests = Len(Fetches(entry.request, reply))]
    /\ UNCHANGED <<storage, now, env, harnessVars, mounted, isOpen, selectedText, session,
                   inputValue, showMenu, pathname>>

\* handleSend after its await, the call having rejected: the catch and the finally.
handleSendRejected ==
    /\ mounted
    /\ \E i \in 1..Len(inflight) :
        LET entry == inflight[i] IN
        \E reply \in WidgetReplies(entry.request.body.session_id) :
            LET outcome == Settle(entry, reply) IN
            /\ ~outcome.ok
            /\ messages' = Append(messages, ErrorMessage(outcome.message, now))
            /\ isLoading' = FALSE
            /\ inflight' = RemoveAt(inflight, i)
            /\ last' = [LastNone EXCEPT !.op = "handleSendRejected", !.ok = FALSE,
                                        !.status = reply.status,
                                        !.requests = Len(Fetches(entry.request, reply))]
    /\ UNCHANGED <<storage, now, env, harnessVars, mounted, isOpen, selectedText, session,
                   inputValue, showMenu, pathname>>

\* A Clear History that does not wait for the confirmation's answer.
handleClearHistoryUnconfirmed ==
    /\ mounted /\ isOpen /\ showMenu
    /\ \E confirmed \in BOOLEAN :
        /\ last' = [LastNone EXCEPT !.op = "handleClearHistory", !.ok = confirmed]
        /\ messages' = <<>>
        /\ storage' = clearConversation(storage, env)
        /\ showMenu' = FALSE
    /\ UNCHANGED <<now, env, harnessVars, mounted, isLoading, isOpen, selectedText, session,
                   inputValue, inflight, pathname>>

\* handleClearHistory; confirmed is what window.confirm returns.
handleClearHistory ==
    /\ mounted /\ isOpen /\ showMenu
    /\ \E confirmed \in BOOLEAN :
        /\ last' = [LastNone EXCEPT !.op = "handleClearHistory", !.ok = confirmed]
        /\ IF confirmed
           THEN /\ messages' = <<>>
                /\ storage' = clearConversation(storage, env)
                /\ showMenu' = FALSE
           ELSE UNCHANGED <<messages, storage, showMenu>>
    /\ UNCHANGED <<now, env, harnessVars, mounted, isLoading, isOpen, selectedText, session,
                   inputValue, inflight, pathname>>

\* handleNewSession; confirmed is what window.confirm returns.
handleNewSession ==
    /\ mounted /\ isOpen /\ showMenu
    /\ \E confirmed \in BOOLEAN :
        /\ last' = [LastNone EXCEPT !.op = "handleNewSession", !.ok = confirmed]
        /\ IF confirmed
           THEN \E id \in generateUUID, g \in generateUUID,
                   qB \in QuotaExceeded, qS \in QuotaExceeded :
                    LET r == createSession(storage, env, now, Absent, id, g, g, qB, qS) IN
                    /\ storage' = r.storage
                    /\ session' = Some(r.ret)
                    /\ messages' = <<>>
                    /\ selectedText' = ""
                    /\ showMenu' = FALSE
           ELSE UNCHANGED <<storage, session, messages, selectedText, showMenu>>
    /\ UNCHANGED <<now, env, harnessVars, mounted, isLoading, isOpen, inputValue, inflight,
                   pathname>>

(***************************************************************************)
(* Specifications                                                          *)
(***************************************************************************)
WidgetInit ==
    /\ mounted = FALSE
    /\ messages = <<>>
    /\ isLoading = FALSE
    /\ isOpen = FALSE
    /\ selectedText = ""
    /\ session = Absent
    /\ inputValue = ""
    /\ showMenu = FALSE
    /\ inflight = <<>>
    /\ last = LastNone

HarnessInit ==
    /\ ret = NoRet
    /\ userProfiles = Absent
    /\ pending = NoCalls
    /\ migration = NotRunning

\* The widget in a browser with empty storage.
Init ==
    /\ storage = EmptyStorage
    /\ now = Epoch
    /\ env = "browser"
    /\ pathname = "/robotics/docs/module-1"
    /\ HarnessInit
    /\ WidgetInit

Next ==
    \/ TickPast
    \/ Mount
    \/ Reload
    \/ handleSelection
    \/ ToggleOpen
    \/ ToggleMenu
    \/ TypeInput
    \/ PressEnter
    \/ ClickSend
    \/ handleSendResolved
    \/ handleSendRejected
    \/ handleClearHistory
    \/ handleNewSession

Spec == Init /\ [][Next]_vars

\* The SessionManager alone, called in any order in each execution context.
InitStore ==
    /\ storage = EmptyStorage
    /\ now = Epoch
    /\ env \in {"browser", "denied", "ssr"}
    /\ pathname = "/"
    /\ HarnessInit
    /\ WidgetInit

NextStore ==
    \/ Tick
    \/ CallGetSession
    \/ CallCreateSession
    \/ CallSaveConversation
    \/ CallGetConversationHistory
    \/ CallClearConversation
    \/ CallDeleteSession
    \/ ForeignWrite

SpecStore == InitStore /\ [][NextStore]_vars

(***************************************************************************)
(* ChatAPI called directly: a call, then one step per await of the method  *)
(***************************************************************************)
RetryAfters == {Absent, Some(""), Some("30")}
Details == {Absent, Some(DetailString("")), Some(DetailString("Session not found")),
            Some(DetailArray(<<>>)),
            Some(DetailArray(<<"ensure this value has at least 3 characters">>)),
            Some(DetailArray(<<"field required", "field required">>))}

\* Bodies as response.json() settles on them: a JSON object, the JSON text null,
\* an HTML page and an empty body (the SyntaxError's message as Node 20 and
\* Chrome word it).
Bodies == {JsonObject, JsonNull,
           NotJson("Unexpected token '<', \"<html><bod\"... is not valid JSON"),
           NotJson("Unexpected end of JSON input"),
           NotJson("Failed to execute 'json' on 'Response': Unexpected end of JSON input")}

SampleSessionId == "1b9d6bcd-bbfd-4b2d-9b5d-ab8dfbbd4bed"

Statuses == {200, 404, 422, 429, 500}

\* What a response's body can be for a status: a JSON object with or without a
\* detail, or one of the other bodies, which carry no detail.
BodiesOf(status) ==
    {[json |-> JsonObject, detail |-> detail,
      data |-> IF status = 200 THEN Some(Answer(SampleSessionId)) ELSE Absent] :
        detail \in Details}
    \cup {[json |-> json, detail |-> Absent, data |-> Absent] : json \in Bodies \ {JsonObject}}

\* The harness after a call has settled with its reply.
SettledCall(caller, reply) ==
    [NoRet EXCEPT !.op = caller, !.reply = Some(reply),
                  !.outcome = Some(IF caller = "query" THEN query(reply)
                                   ELSE querySelection(reply)),
                  !.requests =
                      Fetches(IF caller = "query"
                              THEN QueryRequest("explain this", SampleSessionId, Some("/"))
                              ELSE SelectionRequest("Newton's second law states F=ma",
                                                    "explain this", SampleSessionId,
                                                    "docs", Absent),
                              reply)]

\* query is called: it sends its request and returns a pending promise, the
\* method suspended at await fetch(...).
CallQuery ==
    /\ pending["query"].pc = "settled"
    /\ pending' = [pending EXCEPT !["query"] = [Settled EXCEPT !.pc = "fetch"]]
    /\ ret' = [NoRet EXCEPT !.op = "call", !.arg = Some("query")]
    /\ UNCHANGED <<storage, now, env, widgetVars, userProfiles, migration>>

\* querySelection is called: as query, on the other endpoint.
CallQuerySelection ==
    /\ pending["querySelection"].pc = "settled"
    /\ pending' = [pending EXCEPT !["querySelection"] = [Settled EXCEPT !.pc = "fetch"]]
    /\ ret' = [NoRet EXCEPT !.op = "call", !.arg = Some("querySelection")]
    /\ UNCHANGED <<storage, now, env, widgetVars, userProfiles, migration>>

\* The fetch of an outstanding call fails: the method rejects with fetch's error.
FetchRejects ==
    \E caller \in Callers,
       reply \in {NetworkFailure("Failed to fetch"), NetworkFailure("fetch failed")} :
        /\ pending[caller].pc = "fetch"
        /\ pending' = [pending EXCEPT ![caller] = Settled]
        /\ ret' = SettledCall(caller, reply)
        /\ UNCHANGED <<storage, now, env, widgetVars, userProfiles, migration>>

\* The fetch of an outstanding call resolves with a response (status and headers;
\* the body is not read yet). A 429 response rejects the call here, whatever body
\* follows; any other response suspends the method at response.json().
FetchResolves ==
    \E caller \in Callers, status \in Statuses, retryAfter \in RetryAfters :
        /\ pending[caller].pc = "fetch"
        /\ IF status = 429
           THEN \E body \in BodiesOf(status) :
                    /\ pending' = [pending EXCEPT ![caller] = Settled]
                    /\ ret' = SettledCall(caller, HttpReply(status, retryAfter, body.json,
                                                           body.detail, body.data))
           ELSE /\ pending' = [pending EXCEPT ![caller] =
                                   [pc |-> "json", status |-> status,
                                    retryAfter |-> retryAfter]]
                /\ ret' = [NoRet EXCEPT !.op = "response", !.arg = Some(caller)]
        /\ UNCHANGED <<storage, now, env, widgetVars, userProfiles, migration>>

\* response.json() of an outstanding call settles on the body: the call settles.
JsonSettles ==
    \E caller \in Callers :
        /\ pending[caller].pc = "json"
        /\ \E body \in BodiesOf(pending[caller].status) :
            /\ pending' = [pending EXCEPT ![caller] = Settled]
            /\ ret' = SettledCall(caller, HttpReply(pending[caller].status,
                                                   pending[caller].retryAfter,
                                                   body.json, body.detail, body.data))
        /\ UNCHANGED <<storage, now, env, widgetVars, userProfiles, migration>>

DEV_API_URL == "http://localhost:8000"
PROD_API_URL == "https://rag-chatbot-backend-production-5e31.up.railway.app"

\* A resolution that asks the hostname before the injected override.
API_URLHostnameFirst(hasWindow, override, hostname) ==
    IF ~hasWindow THEN DEV_API_URL
    ELSE IF hostname = "localhost" THEN DEV_API_URL
    ELSE IF IsSome(override) /\ Get(override) # "" THEN Get(override)
    ELSE PROD_API_URL

\* The module constant API_URL of ChatWidget, the base URL given to new ChatAPI:
\* typeof window !== 'undefined'
\*   ? window.__CHATBOT_API_URL__ || (hostname === 'localhost' ? DEV : PROD) : DEV
\* override is the injected global (Absent when undefined; "" is falsy).
API_URL(hasWindow, override, hostname) ==
    IF ~hasWindow THEN DEV_API_URL
    ELSE IF IsSome(override) /\ Get(override) # "" THEN Get(override)
    ELSE IF hostname = "localhost" THEN DEV_API_URL
    ELSE PROD_API_URL

Overrides == {Absent, Some(""), Some("https://staging.example.com")}
Hostnames == {"localhost", "127.0.0.1", "engineerabdulqadir.github.io"}

\* The module is evaluated: API_URL is computed for one page environment.
ResolveApiUrl ==
    \E hasWindow \in BOOLEAN, override \in Overrides, hostname \in Hostnames :
        /\ ret' = [NoRet EXCEPT !.op = "API_URL",
                                !.arg = Some([hasWindow |-> hasWindow,
                                              override |-> override,
                                              hostname |-> hostname]),
                                !.outcome = Some(API_URL(hasWindow, override, hostname))]
        /\ UNCHANGED <<storage, now, env, widgetVars, userProfiles, pending, migration>>

NextAPI ==
    \/ CallQuery
    \/ CallQuerySelection
    \/ FetchRejects
    \/ FetchResolves
    \/ JsonSettles
    \/ ResolveApiUrl

SpecAPI == Init /\ [][NextAPI]_vars

(***************************************************************************)
(* Two widget instances of one browser (two tabs of the site): the second  *)
(* instance is seen through what its handlers do to the shared storage.    *)
(***************************************************************************)
\* The mount effect of another instance: getSession, else createSession.
OtherInstanceMount ==
    /\ LET existingSession == getSession(storage, env, now) IN
        \E r \in IF IsSome(existingSession.ret)
                  THEN {[storage |-> existingSession.storage, ret |-> Get(existingSession.ret)]}
                  ELSE {createSession(existingSession.storage, env, now, Absent, id, g, g,
                                      qB, qS) :
                           id \in generateUUID, g \in generateUUID,
                           qB \in QuotaExceeded, qS \in QuotaExceeded} :
            storage' = r.storage
    /\ last' = LastNone
    /\ UNCHANGED <<now, env, harnessVars, uiVars>>

\* handleNewSession of another instance, confirmed.
OtherInstanceNewSession ==
    /\ \E id \in generateUUID, g \in generateUUID,
          qB \in QuotaExceeded, qS \in QuotaExceeded :
        storage' = createSession(storage, env, now, Absent, id, g, g, qB, qS).storage
    /\ last' = LastNone
    /\ UNCHANGED <<now, env, harnessVars, uiVars>>

NextTabs ==
    \/ TickPast
    \/ Mount
    \/ Reload
    \/ ToggleOpen
    \/ ToggleMenu
    \/ handleClearHistory
    \/ handleNewSession
    \/ OtherInstanceMount
    \/ OtherInstanceNewSession

SpecTabs == Init /\ [][NextTabs]_vars

(***************************************************************************)
(* Sending against a backend that also rate-limits                         *)
(***************************************************************************)
ReplyRateLimited == HttpReply(429, Some("30"), JsonObject, Absent, Absent)

\* handleSend after its await, the call having been answered 429: the same catch
\* and finally as for any other failure.
handleSendRateLimited ==
    /\ mounted
    /\ \E i \in 1..Len(inflight) :
        LET entry == inflight[i]
            outcome == Settle(entry, ReplyRateLimited)
        IN  /\ ~outcome.ok
            /\ messages' = Append(messages, ErrorMessage(outcome.message, now))
            /\ isLoading' = FALSE
            /\ inflight' = RemoveAt(inflight, i)
            /\ last' = [LastNone EXCEPT !.op = "handleSendRejected", !.ok = FALSE,
                                        !.status = ReplyRateLimited.status,
                                        !.requests = Len(Fetches(entry.request,
                                                                 ReplyRateLimited))]
    /\ UNCHANGED <<storage, now, env, harnessVars, mounted, isOpen, selectedText, session,
                   inputValue, showMenu, pathname>>

NextSend ==
    \/ Mount
    \/ ToggleOpen
    \/ ToggleMenu
    \/ TypeInput
    \/ PressEnter
    \/ ClickSend
    \/ handleSendResolved
    \/ handleSendRejected
    \/ handleSendRateLimited
    \/ handleClearHistory

SpecSend == Init /\ [][NextSend]_vars

\* The same, with every awaited network call settling in the end: the promise
\* fetch returned resolves or rejects, and the event loop then runs the rest of
\* handleSend.
SpecSendLive ==
    /\ Init
    /\ [][NextSend]_vars
    /\ WF_vars(handleSendResolved \/ handleSendRejected \/ handleSendRateLimited)

(***************************************************************************)
(* handleSend called with either value of useSelection, on several pages   *)
(***************************************************************************)
Paths == {"/robotics/docs/module-1", "/robotics/", "/robotics", "/"}

\* The widget on one of the pages, in a browser with empty storage.
InitPaths ==
    /\ storage = EmptyStorage
    /\ now = Epoch
    /\ env = "browser"
    /\ pathname \in Paths
    /\ HarnessInit
    /\ WidgetInit

\* handleSend(question, useSelection) called as a function; op records the mode.
CallHandleSend ==
    /\ mounted
    /\ Len(messages) < MaxMsgs /\ Len(inflight) < MaxInflight
    /\ \E question \in Inputs, useSelection \in BOOLEAN :
        handleSend(IF useSelection THEN "handleSend(question, true)"
                                   ELSE "handleSend(question)",
                   question, useSelection)

NextHandleSend ==
    \/ Mount
    \/ handleSelection
    \/ CallHandleSend
    \/ handleSendResolved
    \/ handleSendRejected

SpecHandleSend == InitPaths /\ [][NextHandleSend]_vars

(***************************************************************************)
(* The mouseup listener over selections around the ten-character limit     *)
(***************************************************************************)
PointerSelections == {"", "   ", "short text", "0123456789", " 0123456789 ",
                      "\r\n0123456789\f", "01234567890",
                      " Newton's second law states F=ma "}

\* A mouseup with the window selection sel; ret keeps what was selected.
MouseUp ==
    /\ mounted
    /\ \E sel \in PointerSelections :
        /\ selectedText' = SelectionAfter(selectedText, sel)
        /\ ret' = [NoRet EXCEPT !.op = "handleSelection", !.arg = Some(sel)]
    /\ last' = [LastNone EXCEPT !.op = "handleSelection"]
    /\ UNCHANGED <<storage, now, env, mounted, messages, isLoading, isOpen, session,
                   inputValue, showMenu, inflight, pathname, userProfiles,
                   pending, migration>>

NextSelection ==
    \/ Mount
    \/ MouseUp
    \/ CallHandleSend
    \/ handleSendResolved
    \/ handleSendRejected

SpecSelection == Init /\ [][NextSelection]_vars

(***************************************************************************)
(* The widget over a storage whose session record can be lost or damaged    *)
(* while the conversation record stays                                      *)
(***************************************************************************)
\* Something else on the origin removes the session record only.
ForeignRemoveSession ==
    /\ env = "browser"
    /\ IsSome(storage.session)
    /\ storage' = [storage EXCEPT !.session = Absent]
    /\ last' = LastNone
    /\ UNCHANGED <<now, env, harnessVars, uiVars>>

NextForeign ==
    \/ Mount
    \/ Reload
    \/ ToggleOpen
    \/ TypeInput
    \/ PressEnter
    \/ handleSendResolved
    \/ handleSendRejected
    \/ ForeignWrite
    \/ ForeignRemoveSession

SpecForeign == Init /\ [][NextForeign]_vars

(***************************************************************************)
(* getSession over session records this code wrote and over records whose  *)
(* expires_at is missing or is no date                                      *)
(***************************************************************************)
\* A session record as JSON text, complete but for its expires_at.
RecordWithoutExpiry(t) ==
    JSONstringify([id |-> SampleSessionId,
                   anonymous_browser_id |-> SampleSessionId,
                   created_at |-> toISOString(t),
                   expires_at |-> UnparseableISO,
                   page_context |-> Absent])

\* Something else on the origin (or an earlier version of the site) leaves a
\* session record without a usable expires_at under SESSION_KEY.
ForeignWriteExpiry ==
    /\ storage.session # Some(RecordWithoutExpiry(now))
    /\ storage' = [storage EXCEPT !.session = Some(RecordWithoutExpiry(now))]
    /\ ret' = [NoRet EXCEPT !.prev = PrevCreated]
    /\ UNCHANGED <<now, env, widgetVars, userProfiles, pending, migration>>

\* Time passes: the clock moves on by more than the length of a session's life.
TickOver ==
    /\ now.d + SESSION_EXPIRY_DAYS + 1 <= MaxDay
    /\ now' = [now EXCEPT !.d = @ + SESSION_EXPIRY_DAYS + 1]
    /\ ret' = [NoRet EXCEPT !.prev = PrevCreated]
    /\ UNCHANGED <<storage, env, widgetVars, userProfiles, pending, migration>>

NextExpiry ==
    \/ CallGetSession
    \/ CallCreateSession
    \/ CallSaveConversation
    \/ ForeignWriteExpiry
    \/ TickOver

SpecExpiry == Init /\ [][NextExpiry]_vars

(***************************************************************************)
(* The column migration of table user_profiles, run against a database in  *)
(* any state of that table                                                 *)
(***************************************************************************)
ColumnNames == {"id", "softwareDevExperience", "softwareExperience",
                "hardwareExperience", "learningGoals"}

\* The table in every state a database can be in: missing, or with any columns.
Tables == {Absent} \cup {Some(c) : c \in SUBSET ColumnNames}

\* SELECT column_name FROM information_schema.columns WHERE table_name =
\* 'user_profiles' AND column_name = c: whether the result has a row.
ColumnExists(table, c) == IsSome(table) /\ c \in Get(table)

\* ALTER TABLE user_profiles RENAME COLUMN a TO b: an error when the table or
\* column a does not exist or a column b exists already.
RenameColumn(table, a, b) ==
    IF ~IsSome(table) \/ a \notin Get(table) \/ b \in Get(table)
    THEN [table |-> table, ok |-> FALSE]
    ELSE [table |-> Some((Get(table) \ {a}) \cup {b}), ok |-> TRUE]

\* ALTER TABLE user_profiles ADD COLUMN c TEXT: an error when the table does not
\* exist or has a column c already.
AddColumn(table, c) ==
    IF ~IsSome(table) \/ c \in Get(table)
    THEN [table |-> table, ok |-> FALSE]
    ELSE [table |-> Some(Get(table) \cup {c}), ok |-> TRUE]

\* The three guarded statements of the script in order: the column each SELECT
\* looks for, whether the ALTER is run when the column is there (the rename) or
\* when it is not (the two ADDs), and the ALTER.
MigrationSteps ==
    <<[check |-> "checkColumn", column |-> "softwareDevExperience", whenFound |-> TRUE,
       alter |-> "RENAME softwareDevExperience"],
      [check |-> "checkHardware", column |-> "hardwareExperience", whenFound |-> FALSE,
       alter |-> "ADD hardwareExperience"],
      [check |-> "checkGoals", column |-> "learningGoals", whenFound |-> FALSE,
       alter |-> "ADD learningGoals"]>>

\* A script that adds hardwareExperience without looking at what its SELECT found.
AltersUnchecked(step, found) ==
    IF step = 2 THEN TRUE
    ELSE IF MigrationSteps[step].whenFound THEN found ELSE ~found

\* if (checkColumn.rows.length > 0), if (checkHardware.rows.length === 0),
\* if (checkGoals.rows.length === 0): whether the step's ALTER is sent.
Alters(step, found) == IF MigrationSteps[step].whenFound THEN found ELSE ~found

\* The ALTER of a step, executed on the table as it is when it arrives.
ExecuteAlter(table, step) ==
    IF step = 1 THEN RenameColumn(table, "softwareDevExperience", "softwareExperience")
    ELSE AddColumn(table, MigrationSteps[step].column)

\* A database with the table in any state; the chat client plays no part.
InitMigration ==
    /\ storage = EmptyStorage
    /\ now = Epoch
    /\ env = "ssr"
    /\ pathname = "/"
    /\ ret = NoRet
    /\ userProfiles \in Tables
    /\ pending = NoCalls
    /\ migration = NotRunning
    /\ WidgetInit

\* The run ends: ret keeps the ALTERs it sent, whether it ended successfully,
\* whether another client changed the table while it ran, and how the run
\* directly before it ended.
EndOfRun(alters, ok) ==
    [NoRet EXCEPT !.op = "runMigration",
                  !.outcome = Some([alters |-> alters, ok |-> ok,
                                    undisturbed |-> migration.undisturbed]),
                  !.prev = migration.prev]

\* node run-migration.js: runMigration() is called and suspends at
\* await client.connect().
CallRunMigration ==
    /\ migration.pc = "exited"
    /\ migration' = [NotRunning EXCEPT !.pc = "connect",
                                       !.prev = IF ret.op = "runMigration"
                                                THEN ret.outcome ELSE Absent]
    /\ ret' = [NoRet EXCEPT !.op = "node run-migration.js"]
    /\ UNCHANGED <<storage, now, env, widgetVars, userProfiles, pending>>

\* client.connect() settles: on success the first SELECT is sent, on failure the
\* catch exits with code 1.
Connect ==
    /\ migration.pc = "connect"
    /\ \E connects \in BOOLEAN :
        IF connects
        THEN /\ migration' = [migration EXCEPT !.pc = "select", !.step = 1]
             /\ ret' = NoRet
        ELSE /\ migration' = NotRunning
             /\ ret' = EndOfRun(<<>>, FALSE)
    /\ UNCHANGED <<storage, now, env, widgetVars, userProfiles, pending>>

\* The SELECT of a step is answered from the table as it is now: the script sends
\* the step's ALTER or goes on to the next SELECT.
CheckColumn ==
    /\ migration.pc = "select"
    /\ migration.step \in 1..Len(MigrationSteps)
    /\ LET step == migration.step
           found == ColumnExists(userProfiles, MigrationSteps[step].column)
       IN  migration' = IF Alters(step, found)
                        THEN [migration EXCEPT !.pc = "alter",
                                               !.alters = Append(@, MigrationSteps[step].alter)]
                        ELSE [migration EXCEPT !.step = step + 1]
    /\ ret' = NoRet
    /\ UNCHANGED <<storage, now, env, widgetVars, userProfiles, pending>>

\* The ALTER of a step is executed on the table as it is now, in its own
\* implicit transaction: on an error the catch exits with code 1 and what
\* earlier statements did stays.
AlterTable ==
    /\ migration.pc = "alter"
    /\ LET r == ExecuteAlter(userProfiles, migration.step) IN
        /\ userProfiles' = r.table
        /\ IF r.ok
           THEN /\ migration' = [migration EXCEPT !.pc = "select", !.step = @ + 1]
                /\ ret' = NoRet
           ELSE /\ migration' = NotRunning
                /\ ret' = EndOfRun(migration.alters, FALSE)
    /\ UNCHANGED <<storage, now, env, widgetVars, pending>>

\* The closing SELECT of all columns is answered and printed: the run ends
\* successfully.
ShowColumns ==
    /\ migration.pc = "select"
    /\ migration.step = Len(MigrationSteps) + 1
    /\ migration' = NotRunning
    /\ ret' = EndOfRun(migration.alters, TRUE)
    /\ UNCHANGED <<storage, now, env, widgetVars, userProfiles, pending>>

\* Something other than this script changes the table: a column is added or
\* dropped (another migration, the ORM's schema push), also while the script
\* is between two of its statements.
SchemaChange ==
    /\ IsSome(userProfiles)
    /\ \E c \in ColumnNames :
        userProfiles' = IF c \in Get(userProfiles)
                        THEN Some(Get(userProfiles) \ {c})
                        ELSE Some(Get(userProfiles) \cup {c})
    /\ migration' = IF migration.pc = "exited" THEN migration
                    ELSE [migration EXCEPT !.undisturbed = FALSE]
    /\ ret' = NoRet
    /\ UNCHANGED <<storage, now, env, widgetVars, pending>>

NextMigration ==
    \/ CallRunMigration
    \/ Connect
    \/ CheckColumn
    \/ AlterTable
    \/ ShowColumns
    \/ SchemaChange

SpecMigration == InitMigration /\ [][NextMigration]_vars

(***************************************************************************)
(* Properties                                                              *)
(***************************************************************************)
\* The persisted message list as getConversationHistory gives it, empty when absent.
Persisted(st) ==
    LET h == getConversationHistory(st, "browser") IN IF IsSome(h) THEN Get(h) ELSE <<>>

\* The stored session record's expires_at lies before instant t.
StoredSessionExpired(st, t) ==
    /\ IsSome(st.session)
    /\ ~JSONparseThrows(Get(st.session))
    /\ DateLT(NewDate(JSONparse(Get(st.session)).expires_at), t)

\* C1: at most one query is outstanding at any time, and a send attempted while
\* one is outstanding is dropped: it issues no request and appends no user message.
C1_SingleFlight ==
    [][/\ Len(inflight') <= 1
       /\ (Len(inflight) > 0 /\ last'.op \in {"PressEnter", "ClickSend"})
            => (~last'.ok /\ inflight' = inflight /\ messages' = messages)]_vars

\* A send has just been attempted and dropped while a query was outstanding.
C1_Witness ==
    /\ last.op \in {"PressEnter", "ClickSend"} /\ ~last.ok
    /\ Len(inflight) = 1 /\ isLoading
    /\ Len(messages) > 0 /\ messages[Len(messages)].type = "user"

\* C2: right after the success path of handleSend (its storage write not having
\* thrown) the persisted conversation equals the in-memory message list.
C2_PersistedIsWholeList ==
    (last.op = "handleSendResolved" /\ ~last.threw) => Persisted(storage) = messages

\* C3: getSession on a stored session whose expires_at is in the past returns
\* absence and removes the session and the conversation records, so that
\* getConversationHistory then returns absence.
C3_ExpiredSessionErased ==
    (env = "browser" /\ ret.op = "getSession" /\ StoredSessionExpired(ret.pre, now))
        => /\ ret.session = Absent
           /\ storage.session = Absent
           /\ storage.history = Absent
           /\ getConversationHistory(storage, env) = Absent
           /\ storage.browserId = ret.pre.browserId

\* getSession has just met an expired session that had a conversation stored.
C3_Witness ==
    /\ env = "browser" /\ ret.op = "getSession"
    /\ StoredSessionExpired(ret.pre, now) /\ IsSome(ret.pre.history)
    /\ ret.session = Absent /\ storage.session = Absent /\ storage.history = Absent

\* C4: after a confirmed New Session the widget holds a newly created session, the
\* in-memory list is empty and the persisted message list is cleared.
C4_NewSessionClearsPersisted ==
    (last.op = "handleNewSession" /\ last.ok)
        => /\ IsSome(session) /\ Get(session).created_at = now
           /\ messages = <<>>
           /\ getConversationHistory(storage, env) = Absent

\* C5: a question sent while text is selected goes out through querySelection,
\* carrying the selected text, the question and the chapter of the page path.
C5_SelectionUsesQuerySelection ==
    \A i \in 1..Len(inflight) :
        inflight[i].selectedText # ""
            => /\ inflight[i].kind = "selection"
               /\ inflight[i].request.endpoint = "/api/v1/chat/selection"

\* C6: a confirmed Clear History empties the in-memory list and deletes the
\* persisted message list while leaving the stored session untouched: the same
\* record, hence the same id and expires_at, and the same answer from getSession.
C6_ClearHistoryKeepsSession ==
    [][(last'.op = "handleClearHistory" /\ last'.ok)
        => /\ messages' = <<>>
           /\ storage'.history = Absent
           /\ getConversationHistory(storage', env') = Absent
           /\ storage'.session = storage.session
           /\ storage'.browserId = storage.browserId
           /\ session' = session
           /\ getSession(storage', env', now').ret = getSession(storage, env, now).ret]_vars

\* Clear History has just been confirmed with no query outstanding, and the stored
\* session is still the widget's session and still returned by getSession.
C6_Witness ==
    /\ last.op = "handleClearHistory" /\ last.ok
    /\ messages = <<>> /\ storage.history = Absent
    /\ IsSome(session)
    /\ getSession(storage, env, now).ret = session
    /\ Len(inflight) = 0 /\ ~isLoading

\* C7: a failed send appends exactly one error message carrying the failure's
\* message, directly after the optimistic user message, adds no assistant message
\* and leaves the persisted conversation as it was.
C7_FailedSend ==
    [][(last'.op = "handleSendRejected")
        => /\ Len(messages') = Len(messages) + 1
           /\ SubSeq(messages', 1, Len(messages)) = messages
           /\ messages'[Len(messages')].type = "error"
           /\ (last'.status = 500
                 => messages'[Len(messages')].content = "API error: 500")
           /\ \E i \in 1..Len(inflight) :
                /\ inflight' = RemoveAt(inflight, i)
                /\ (\E k \in 1..Len(messages) : messages[k] = inflight[i].userMessage)
                     => messages[Len(messages)] = inflight[i].userMessage
           /\ storage' = storage
           /\ ~isLoading']_vars

\* A send has just failed with the user message still in the list and a
\* conversation persisted from an earlier, successful send.
C7_Witness ==
    /\ last.op = "handleSendRejected" /\ last.status = 500
    /\ Len(messages) >= 2
    /\ messages[Len(messages)].type = "error"
    /\ messages[Len(messages)].content = "API error: 500"
    /\ messages[Len(messages) - 1].type = "user"
    /\ Len(inflight) = 0

\* C8: whenever no query is outstanding the persisted message list equals the
\* in-memory message list of the mounted widget.
C8_PersistedEqualsMemoryWhenIdle ==
    (mounted /\ Len(inflight) = 0) => Persisted(storage) = messages

\* C9: getConversationHistory right after a saveConversation whose write went
\* through returns the saved list, message by message and field by field
\* (timestamps included), whatever was persisted before.
C9_SaveGetRoundTrip ==
    (env = "browser" /\ ret.op = "saveConversation" /\ ~ret.threw)
        => /\ getConversationHistory(storage, env) = ret.arg
           /\ LET got == Get(getConversationHistory(storage, env))
                  arg == Get(ret.arg)
              IN  /\ Len(got) = Len(arg)
                  /\ \A i \in 1..Len(arg) :
                        /\ got[i].id = arg[i].id
                        /\ got[i].type = arg[i].type
                        /\ got[i].content = arg[i].content
                        /\ got[i].sources = arg[i].sources
                        /\ got[i].confidence = arg[i].confidence
                        /\ got[i].timestamp = arg[i].timestamp

\* A list with a cited answer has just been saved over a different persisted list.
C9_Witness ==
    /\ env = "browser" /\ ret.op = "saveConversation" /\ ~ret.threw
    /\ IsSome(ret.pre.history) /\ ret.pre.history # storage.history
    /\ Len(Get(ret.arg)) >= 2
    /\ \E i \in 1..Len(Get(ret.arg)) : IsSome(Get(ret.arg)[i].sources)
    /\ getConversationHistory(storage, env) = ret.arg

\* C10 as stated: every createSession returns the anonymous_browser_id of the
\* createSession before it and a session id different from that one's.
C10_SameBrowserIdDistinctSessionId ==
    (env = "browser" /\ ret.op = "createSession" /\ IsSome(ret.prev))
        => /\ Get(ret.session).anonymous_browser_id = Get(ret.prev).anonymous_browser_id
           /\ Get(ret.session).id # Get(ret.prev).id

\* C10 amended: once a browser identifier is stored, no SessionManager call changes
\* or removes it, and createSession returns that stored identifier, the same as the
\* createSession before it; the session id is a fresh random draw.
C10_StoredBrowserIdStable ==
    /\ (ret.op # "none" /\ IsSome(ret.pre.browserId))
          => storage.browserId = ret.pre.browserId
    /\ (env = "browser" /\ ret.op = "createSession" /\ IsSome(storage.browserId))
          => Get(ret.session).anonymous_browser_id = Get(storage.browserId)
    /\ (env = "browser" /\ ret.op = "createSession" /\ IsSome(ret.prev)
        /\ IsSome(ret.pre.browserId))
          => Get(ret.session).anonymous_browser_id = Get(ret.prev).anonymous_browser_id

\* A second createSession has just returned the stored browser identifier with a
\* session id of its own, replacing the session stored before.
C10_Witness ==
    /\ env = "browser" /\ ret.op = "createSession"
    /\ IsSome(ret.prev) /\ IsSome(ret.pre.browserId) /\ IsSome(ret.pre.session)
    /\ Get(ret.session).anonymous_browser_id = Get(ret.prev).anonymous_browser_id
    /\ Get(ret.session).anonymous_browser_id = Get(storage.browserId)
    /\ Get(ret.session).id # Get(ret.prev).id

\* C11 as stated: after every createSession, getSession returns the session with
\* the id createSession returned, and the record stored before is gone.
C11_AlwaysPersists ==
    (ret.op = "createSession")
        => /\ IsSome(getSession(storage, env, now).ret)
           /\ Get(getSession(storage, env, now).ret).id = Get(ret.session).id

\* C11: a createSession whose write goes through leaves the new session as the one
\* stored record: getSession right afterwards returns the session with the id
\* createSession returned, and the record stored before is gone. A createSession
\* whose write does not happen (no window) or throws (storage denied, quota)
\* still returns its session but leaves the stored record as it was: getSession
\* right afterwards returns what it returned before the call: the earlier
\* session, still retrievable, if one was stored and valid, and absence if not.
C11_CreateSessionOverwrites ==
    /\ (env = "browser" /\ ret.op = "createSession" /\ ~ret.threw)
        => /\ storage.session = Some(SessionToJSON(Get(ret.session)))
           /\ IsSome(getSession(storage, env, now).ret)
           /\ Get(getSession(storage, env, now).ret).id = Get(ret.session).id
           /\ getSession(storage, env, now).storage = storage
           /\ LET before == getSession(ret.pre, env, now).ret IN
                (IsSome(before) /\ Get(before).id # Get(ret.session).id)
                    => Get(getSession(storage, env, now).ret).id # Get(before).id
    /\ (ret.op = "createSession" /\ (env # "browser" \/ ret.threw))
        => /\ storage.session = ret.pre.session
           /\ getSession(storage, env, now).ret = getSession(ret.pre, env, now).ret
           /\ LET before == getSession(ret.pre, env, now).ret
                  after == getSession(storage, env, now).ret
              IN  IF IsSome(before)
                  THEN IsSome(after) /\ Get(after).id = Get(before).id
                  ELSE after = Absent

\* createSession has just replaced a stored, still valid session of another id.
C11_Witness ==
    /\ env = "browser" /\ ret.op = "createSession" /\ ~ret.threw
    /\ IsSome(getSession(ret.pre, env, now).ret)
    /\ Get(getSession(ret.pre, env, now).ret).id # Get(ret.session).id
    /\ Get(getSession(storage, env, now).ret).id = Get(ret.session).id

\* C12: every session createSession builds expires exactly SESSION_EXPIRY_DAYS days
\* after its creation instant, to the millisecond, whatever the page context and
\* the session stored before; the stored record carries the same two instants.
C12_ExpiryIsThirtyDays ==
    (ret.op = "createSession")
        => LET s == Get(ret.session) IN
           /\ s.created_at = now
           /\ s.expires_at.d = s.created_at.d + 30
           /\ s.expires_at.ms = s.created_at.ms
           /\ (env = "browser" /\ ~ret.threw)
                 => LET stored == JSONparse(Get(storage.session)) IN
                    /\ NewDate(stored.created_at) = s.created_at
                    /\ NewDate(stored.expires_at).d = s.created_at.d + 30
                    /\ NewDate(stored.expires_at).ms = s.created_at.ms

\* A session with a page context has just been created over an earlier session,
\* later than the epoch.
C12_Witness ==
    /\ ret.op = "createSession" /\ env = "browser" /\ ~ret.threw
    /\ IsSome(ret.pre.session)
    /\ IsSome(Get(ret.session).page_context)
    /\ now.d > 0
    /\ Get(ret.session).expires_at.d = now.d + 30

\* C13: getSession returns the stored session exactly while the current time is
\* strictly before its expires_at, and absence at any time at or after it.
C13_ValidOnlyBeforeExpiry ==
    (env = "browser" /\ ret.op = "getSession" /\ IsSome(ret.pre.session)
     /\ ~JSONparseThrows(Get(ret.pre.session)))
        => LET stored == JSONparse(Get(ret.pre.session)) IN
           IF DateLT(now, NewDate(stored.expires_at))
           THEN ret.session = Some(stored)
           ELSE ret.session = Absent

\* C14: the in-memory session of a mounted widget instance has the id of the
\* one session record the browser's storage holds.
C14_OneLiveSession ==
    mounted
        => /\ IsSome(session)
           /\ IsSome(storage.session)
           /\ JSONparse(Get(storage.session)).id = Get(session).id

\* C15: mounting the widget on empty storage creates one session, expiring 30 days
\* after the mount, stores it as the one session record and starts with an empty
\* message list and nothing persisted as conversation.
C15_FreshLoad ==
    [][(~mounted /\ mounted' /\ storage = EmptyStorage)
        => /\ IsSome(session')
           /\ Get(session').created_at = now
           /\ Get(session').expires_at = [d |-> now.d + 30, ms |-> now.ms]
           /\ storage'.session = Some(SessionToJSON(Get(session')))
           /\ storage'.browserId = Some(Get(session').anonymous_browser_id)
           /\ storage'.history = Absent
           /\ getSession(storage', env', now').ret = Some(JSONparse(Get(storage'.session)))
           /\ messages' = <<>>
           /\ ~isLoading' /\ Len(inflight') = 0]_vars

\* The widget has just been mounted for the first time in this browser: it found
\* no session, created one and shows no message.
C15_Witness ==
    /\ mounted /\ last.op = "Mount" /\ ~last.ok
    /\ now = Epoch
    /\ IsSome(session) /\ Get(session).created_at = Epoch
    /\ storage.session = Some(SessionToJSON(Get(session)))
    /\ storage.history = Absent
    /\ messages = <<>>

\* C16: no SessionManager call ends by raising, whether storage is denied, a write
\* runs into the quota or the stored text is not JSON; getSession and
\* getConversationHistory then return absence.
C16_NeverRaises ==
    /\ ~ret.raised
    /\ (ret.op = "getSession"
        /\ (env = "denied"
            \/ (IsSome(ret.pre.session) /\ JSONparseThrows(Get(ret.pre.session)))))
          => ret.session = Absent
    /\ (ret.op = "getConversationHistory"
        /\ (env = "denied"
            \/ (IsSome(ret.pre.history) /\ JSONparseThrows(Get(ret.pre.history)))))
          => ret.history = Absent
    /\ (ret.op \in {"saveConversation", "createSession"} /\ (env = "denied" \/ ret.threw))
          => /\ storage.history = ret.pre.history
             /\ storage.session = ret.pre.session

\* getConversationHistory has just met stored text that is not JSON.
C16_Witness ==
    /\ env = "browser" /\ ret.op = "getConversationHistory"
    /\ ret.pre.history = Some(MalformedJSON)
    /\ ret.history = Absent /\ ~ret.raised

\* C17 as stated: without browser storage every SessionManager call, createSession
\* included, touches no storage and returns absence.
C17_EveryCallReturnsAbsence ==
    (env = "ssr" /\ ret.op # "none")
        => /\ storage = ret.pre
           /\ ret.session = Absent
           /\ ret.history = Absent

\* C17 amended: without browser storage no SessionManager call touches storage or
\* raises; getSession and getConversationHistory return absence; createSession
\* still returns a session, built as usual but stored nowhere, with a browser
\* identifier generated for this one call.
C17_NoStorageTouched ==
    (env = "ssr")
        => /\ storage = EmptyStorage
           /\ ~ret.raised
           /\ ret.history = Absent
           /\ (ret.op # "createSession" => ret.session = Absent)
           /\ (ret.op = "createSession"
                 => /\ IsSome(ret.session)
                    /\ Get(ret.session).id \in generateUUID
                    /\ Get(ret.session).anonymous_browser_id \in generateUUID
                    /\ Get(ret.session).created_at = now
                    /\ Get(ret.session).expires_at = [d |-> now.d + 30, ms |-> now.ms]
                    /\ getSession(storage, env, now).ret = Absent)

\* Without browser storage createSession has just returned a session whose
\* browser identifier differs from the one the call before it returned.
C17_Witness ==
    /\ env = "ssr" /\ ret.op = "createSession"
    /\ IsSome(ret.session) /\ IsSome(ret.prev)
    /\ Get(ret.session).anonymous_browser_id # Get(ret.prev).anonymous_browser_id
    /\ storage = EmptyStorage

\* C18: for query and for querySelection a 429 response gives the failure
\* "Rate limited. Please try again in N seconds." with N the Retry-After header's
\* value, or 60 without the header (or with an empty one), whatever the body holds.
C18_RateLimitMessage ==
    (ret.op \in {"query", "querySelection"} /\ Get(ret.reply).kind = "http"
     /\ Get(ret.reply).status = 429)
        => LET reply == Get(ret.reply)
               outcome == Get(ret.outcome)
           IN  /\ ~outcome.ok
               /\ outcome.value = Absent
               /\ (reply.retryAfter = Some("30")
                     => outcome.message = "Rate limited. Please try again in 30 seconds.")
               /\ (reply.retryAfter \in {Absent, Some("")}
                     => outcome.message = "Rate limited. Please try again in 60 seconds.")

\* querySelection has just been answered 429 with Retry-After: 30 and a JSON body
\* that carries a detail.
C18_Witness ==
    /\ ret.op = "querySelection"
    /\ Get(ret.reply).status = 429
    /\ Get(ret.reply).retryAfter = Some("30")
    /\ Get(ret.reply).json = JsonObject
    /\ Get(ret.reply).detail = Some(DetailString("Session not found"))
    /\ Get(ret.outcome).message = "Rate limited. Please try again in 30 seconds."

\* C19: for query and for querySelection a non-success response other than 429
\* gives a failure whose message is the body's detail when the body carries one
\* and "API error: {status}" otherwise, also when the body is not JSON; a success
\* response whose body parses gives no failure.
C19_DetailOrStatus ==
    (ret.op \in {"query", "querySelection"} /\ Get(ret.reply).kind = "http"
     /\ Get(ret.reply).status # 429)
        => LET reply == Get(ret.reply)
               outcome == Get(ret.outcome)
           IN  IF reply.status >= 200 /\ reply.status <= 299
               THEN reply.json.parses => outcome.ok
               ELSE /\ ~outcome.ok
                    /\ IF reply.json = JsonObject /\ IsSome(reply.detail)
                          /\ Truthy(Get(reply.detail))
                       THEN /\ Get(reply.detail).type = "string"
                            /\ outcome.message = Get(reply.detail).text
                       ELSE outcome.message = "API error: " \o ToString(reply.status)

\* C20: a settled call of query or querySelection has issued exactly one HTTP
\* request, whatever the outcome, and the widget issues a request only when the
\* user sends: a failure, rate-limited or not, is followed by no request of the
\* widget's own.
C20_NoRetry ==
    [][/\ (last'.op \in {"handleSendResolved", "handleSendRejected"})
            => /\ last'.requests = 1
               /\ Len(inflight') = Len(inflight) - 1
               /\ ~isLoading'
       /\ (Len(inflight') > Len(inflight))
            => /\ last'.op \in {"PressEnter", "ClickSend"} /\ last'.ok
               /\ Len(inflight') = Len(inflight) + 1
       /\ (last'.op \notin {"PressEnter", "ClickSend"})
            => \A i \in 1..Len(inflight') : \E k \in 1..Len(inflight) :
                   inflight'[i] = inflight[k]]_vars

\* A send has just been answered 429: the rate-limit message is shown and no
\* request is outstanding.
C20_Witness ==
    /\ last.op = "handleSendRejected" /\ last.status = 429 /\ last.requests = 1
    /\ Len(inflight) = 0 /\ ~isLoading
    /\ Len(messages) = 2
    /\ messages[2].type = "error"
    /\ messages[2].content = "Rate limited. Please try again in 30 seconds."

\* C21: a send with empty or whitespace-only input, or without a session, changes
\* nothing: no message, no request, no error entry, and input, loading flag,
\* selection and storage stay as they were.
C21_RejectedSendChangesNothing ==
    [][(last'.op \in {"PressEnter", "ClickSend"}
        /\ (inputValue \in {"", "  "} \/ ~IsSome(session)))
        => /\ ~last'.ok
           /\ messages' = messages
           /\ inflight' = inflight
           /\ inputValue' = inputValue
           /\ isLoading' = isLoading
           /\ selectedText' = selectedText
           /\ session' = session
           /\ storage' = storage]_vars

\* Enter has just been pressed on whitespace-only input in an idle widget that
\* holds a selection: nothing was sent.
C21_Witness ==
    /\ last.op = "PressEnter" /\ ~last.ok
    /\ inputValue = "  "
    /\ ~isLoading /\ Len(inflight) = 0
    /\ selectedText # ""
    /\ messages = <<>>

\* C22: declining the confirmation of Clear History or of New Session leaves the
\* in-memory messages, the session, the selection and every stored record as
\* they were.
C22_DeclinedConfirmation ==
    [][(last'.op \in {"handleClearHistory", "handleNewSession"} /\ ~last'.ok)
        => /\ messages' = messages
           /\ session' = session
           /\ selectedText' = selectedText
           /\ storage' = storage
           /\ inflight' = inflight
           /\ isLoading' = isLoading]_vars

\* Clear History has just been declined on a widget that shows a persisted
\* conversation and holds a selection.
C22_Witness ==
    /\ last.op = "handleClearHistory" /\ ~last.ok
    /\ Len(messages) = 2 /\ Persisted(storage) = messages
    /\ selectedText # ""
    /\ IsSome(session)

\* C23: the widget starts closed; a step that opens or closes it changes nothing
\* else (no message, session, selection, loading flag, outstanding query or
\* stored record), a page reload apart; and a response that arrives while the
\* widget is closed is still appended, and persisted when it is an answer.
C23_ToggleOnlyHides ==
    /\ ~isOpen
    /\ [][/\ (isOpen' # isOpen /\ last'.op # "Reload")
             => UNCHANGED <<storage, now, env, ret, mounted, messages, isLoading,
                            selectedText, session, inputValue, showMenu, inflight,
                            pathname>>
          /\ (~isOpen /\ last'.op \in {"handleSendResolved", "handleSendRejected"})
             => /\ ~isOpen'
                /\ Len(messages') = Len(messages) + 1
                /\ SubSeq(messages', 1, Len(messages)) = messages
                /\ messages'[Len(messages')].type =
                       IF last'.op = "handleSendResolved" THEN "assistant" ELSE "error"
                /\ last'.op = "handleSendResolved"
                   => /\ Persisted(storage') # <<>>
                      /\ Persisted(storage')[Len(Persisted(storage'))]
                             = messages'[Len(messages')]]_vars

\* An answer has just arrived in a closed widget: it is in the list and in storage.
C23_Witness ==
    /\ last.op = "handleSendResolved"
    /\ ~isOpen
    /\ Len(messages) = 2
    /\ messages[2].type = "assistant"
    /\ Persisted(storage) = messages

\* C24 as stated: every change of the in-memory message list of a widget either
\* appends exactly one message at the end or is the reset to the empty list by a
\* confirmed Clear History or New Session (a page reload ends the widget and is
\* not counted as a change of its list).
C24_EveryChangeAppendsOrResets ==
    [][(messages' # messages /\ last'.op # "Reload")
        => \/ /\ Len(messages') = Len(messages) + 1
              /\ SubSeq(messages', 1, Len(messages)) = messages
           \/ /\ messages' = <<>>
              /\ last'.op \in {"handleClearHistory", "handleNewSession"}
              /\ last'.ok]_vars

\* C24: every change of the in-memory message list is one of four: one message
\* appended at the end, the messages before it staying as they were and where
\* they were; the reset to the empty list by a confirmed Clear History or New
\* Session; the mount effect replacing the still empty list by the whole
\* persisted conversation; the page reload, which ends the widget and its list.
C24_AppendOnly ==
    [][(messages' # messages)
        => \/ /\ Len(messages') = Len(messages) + 1
              /\ SubSeq(messages', 1, Len(messages)) = messages
           \/ /\ messages' = <<>>
              /\ last'.op \in {"handleClearHistory", "handleNewSession"}
              /\ last'.ok
           \/ /\ last'.op = "Mount"
              /\ ~mounted /\ messages = <<>>
              /\ messages' = Persisted(storage')
           \/ /\ last'.op = "Reload"
              /\ messages' = <<>> /\ ~mounted']_vars

\* The mount effect has just filled the list with a persisted conversation of
\* more than one message.
C24_Witness ==
    /\ last.op = "Mount"
    /\ Len(messages) >= 2
    /\ messages = Persisted(storage)
    /\ messages[Len(messages)].type = "assistant"

\* C25: a successful response appends exactly one message, of type assistant,
\* with the response's message_id as id, its answer as content, its citations
\* in the response's order and its confidence; nothing else is added and the
\* selection is cleared.
C25_AssistantMessageFromResponse ==
    [][(last'.op = "handleSendResolved")
        => /\ Len(messages') = Len(messages) + 1
           /\ SubSeq(messages', 1, Len(messages)) = messages
           /\ LET m == messages'[Len(messages')] IN
              /\ m.type = "assistant"
              /\ m.id = "msg_1"
              /\ m.content = "Force equals mass times acceleration"
              /\ m.sources = Some(<<Citation1, Citation2>>)
              /\ m.confidence = Some(87)
           /\ \A i \in 1..Len(messages') : messages'[i].type # "error"
                                           \/ i <= Len(messages)
           /\ selectedText' = ""]_vars

\* An answer has just been appended after its question, and no selection is active.
C25_Witness ==
    /\ last.op = "handleSendResolved"
    /\ Len(messages) = 2
    /\ messages[1].type = "user"
    /\ messages[2].type = "assistant"
    /\ messages[2].sources = Some(<<Citation1, Citation2>>)
    /\ selectedText = ""
    /\ isOpen

\* C26: in a page, the backend base URL is the injected override when one is
\* set; otherwise it is the development endpoint when the hostname is localhost
\* and the fixed production endpoint for every other hostname.
C26_BaseUrlResolution ==
    (ret.op = "API_URL" /\ Get(ret.arg).hasWindow)
    => LET a == Get(ret.arg)
           url == Get(ret.outcome)
       IN  /\ (a.override = Some("https://staging.example.com"))
              => url = "https://staging.example.com"
           /\ (a.override \in {Absent, Some("")} /\ a.hostname = "localhost")
              => url = "http://localhost:8000"
           /\ (a.override \in {Absent, Some("")} /\ a.hostname # "localhost")
              => url = "https://rag-chatbot-backend-production-5e31.up.railway.app"

\* The URL has been resolved on localhost with an override injected: the
\* override won.
C26_Witness ==
    /\ ret.op = "API_URL"
    /\ Get(ret.arg).hasWindow
    /\ Get(ret.arg).hostname = "localhost"
    /\ Get(ret.arg).override = Some("https://staging.example.com")
    /\ ret.outcome = Some("https://staging.example.com")

\* C27: after deleteSession(), getSession() and getConversationHistory() both
\* return absence, whatever session and conversation were stored before; in a
\* browser both records are gone from storage.
C27_DeleteSessionErasesBoth ==
    (ret.op = "deleteSession")
    => /\ getSession(storage, env, now).ret = Absent
       /\ getConversationHistory(storage, env) = Absent
       /\ (env = "browser") => (storage.session = Absent /\ storage.history = Absent)

\* deleteSession has just run in a browser that held a live session and a
\* stored conversation.
C27_Witness ==
    /\ ret.op = "deleteSession"
    /\ env = "browser"
    /\ IsSome(getSession(ret.pre, env, now).ret)
    /\ IsSome(getConversationHistory(ret.pre, env))
    /\ storage.session = Absent /\ storage.history = Absent

\* C28: handleSend calls querySelection exactly when it was called in selection
\* mode and selectedText is non-empty, with the selected text, the question, the
\* session id and the path segment at index 2 as chapter ("Unknown" when that
\* segment is missing or empty); in every other case it calls query with the
\* question, the session id and the whole page path.
C28_SelectionOrQuery ==
    (last.op \in {"handleSend(question)", "handleSend(question, true)"} /\ last.ok)
    => LET e == inflight[Len(inflight)]
           question == messages[Len(messages)].content
           chapter == IF pathname = "/robotics/docs/module-1" THEN "docs" ELSE "Unknown"
       IN  IF last.op = "handleSend(question, true)" /\ selectedText # ""
           THEN /\ e.kind = "selection"
                /\ e.request.endpoint = "/api/v1/chat/selection"
                /\ e.request.body = [selected_text |-> selectedText,
                                     question |-> question,
                                     session_id |-> Get(session).id,
                                     chapter |-> chapter,
                                     section |-> ""]
           ELSE /\ e.kind = "query"
                /\ e.request.endpoint = "/api/v1/chat/query"
                /\ e.request.body = [question |-> question,
                                     session_id |-> Get(session).id,
                                     page_context |-> Some(pathname)]

\* handleSend has just been called in selection mode with a selection active on
\* a page whose path has a segment at index 2: querySelection got that segment.
C28_Witness ==
    /\ last.op = "handleSend(question, true)" /\ last.ok
    /\ selectedText = "Newton's second law states F=ma"
    /\ pathname = "/robotics/docs/module-1"
    /\ inflight[Len(inflight)].kind = "selection"
    /\ inflight[Len(inflight)].request.body.chapter = "docs"

\* C29: a send that reaches the network appends its user message in the step
\* that issues the request; the request then settles once, appending exactly
\* one message, an assistant message or an error entry; and unless the list
\* was reset in between, that reply comes right after its user message.
C29_QuestionThenOneReply ==
    [][/\ (last'.op \in {"PressEnter", "ClickSend"} /\ last'.ok)
          => /\ Len(messages') = Len(messages) + 1
             /\ SubSeq(messages', 1, Len(messages)) = messages
             /\ messages'[Len(messages')].type = "user"
             /\ messages'[Len(messages')].content = inputValue
             /\ inflight = <<>> /\ Len(inflight') = 1
             /\ inflight'[1].userMessage = messages'[Len(messages')]
       /\ (last'.op \in {"handleSendResolved", "handleSendRejected"})
          => /\ Len(inflight) = 1 /\ inflight' = <<>>
             /\ Len(messages') = Len(messages) + 1
             /\ SubSeq(messages', 1, Len(messages)) = messages
             /\ messages'[Len(messages')].type
                    = IF last'.ok THEN "assistant" ELSE "error"
             /\ (messages # <<>>)
                => messages[Len(messages)] = inflight[1].userMessage]_vars

\* An answer has just been appended right after its question, and no call is
\* outstanding any more.
C29_Witness ==
    /\ last.op = "handleSendResolved"
    /\ messages[1].type = "user" /\ messages[1].content = "explain this"
    /\ Len(messages) = 2 /\ messages[2].type = "assistant"
    /\ inflight = <<>>
    /\ ~isLoading

\* C30: given that its network call settles, every send that sets the loading
\* flag is followed by a state in which the flag is false again; the step that
\* settles the call, on success and on failure alike, is the one that clears
\* it; and a send attempted with text in the input while the flag is false is
\* accepted.
C30_LoadingEnds ==
    /\ isLoading ~> ~isLoading
    /\ [][/\ (last'.op \in {"handleSendResolved", "handleSendRejected"})
             => (isLoading /\ ~isLoading')
          /\ (last'.op \in {"PressEnter", "ClickSend"} /\ ~isLoading
                /\ Trim(inputValue) # "")
             => (last'.ok /\ isLoading')]_vars

\* The widget is idle again after a failed send, text has been typed and both
\* controls are enabled.
C30_Witness ==
    /\ mounted /\ isOpen
    /\ ~isLoading /\ inflight = <<>>
    /\ Len(messages) = 2 /\ messages[2].type = "error"
    /\ inputValue = "explain this"
    /\ ~TextareaDisabled /\ ~SendBtnDisabled

\* C31: mounting with an unexpired stored session resumes that session (same id,
\* same browser id, same expiry) without creating one, leaves storage as it
\* was, and makes the in-memory list equal to the persisted conversation, empty
\* when none is persisted.
C31_RemountResumes ==
    [][(last'.op = "Mount" /\ IsSome(storage.session)
        /\ ~StoredSessionExpired(storage, now))
        => /\ last'.ok
           /\ storage' = storage
           /\ IsSome(session')
           /\ Get(session').id = Get(storage.session).value.id
           /\ Get(session').anonymous_browser_id
                  = Get(storage.session).value.anonymous_browser_id
           /\ Get(session').expires_at = Get(storage.session).value.expires_at
           /\ messages' = Persisted(storage)]_vars

\* The widget has just been mounted again over a stored session and a stored
\* conversation of a question and its answer: both were taken up.
C31_Witness ==
    /\ last.op = "Mount" /\ last.ok
    /\ IsSome(session) /\ IsSome(storage.session)
    /\ Get(session).id = Get(storage.session).value.id
    /\ Len(messages) = 2
    /\ messages[1].type = "user" /\ messages[2].type = "assistant"
    /\ messages = Persisted(storage)

\* C32: a mouseup over a selection whose trimmed text has more than 10
\* characters makes that trimmed text the active selection; a selection of 10
\* characters or fewer after trimming, or none, leaves the active selection as
\* it was.
C32_SelectionCapture ==
    [][(last'.op = "handleSelection")
        => LET sel == Get(ret'.arg) IN
           /\ (sel = " Newton's second law states F=ma ")
              => selectedText' = "Newton's second law states F=ma"
           /\ (sel = "01234567890") => selectedText' = "01234567890"
           /\ (sel \in {"", "   ", "short text", "0123456789", " 0123456789 ",
                        "\r\n0123456789\f"})
              => selectedText' = selectedText]_vars

\* A mouseup over ten characters between two spaces has just left the earlier
\* capture in place.
C32_Witness ==
    /\ last.op = "handleSelection"
    /\ ret.arg = Some(" 0123456789 ")
    /\ selectedText = "Newton's second law states F=ma"

\* C33: whenever the mount effect creates a session because getSession()
\* returned absence, the in-memory message list starts empty, also when storage
\* still holds a conversation record beside a missing or unparseable session
\* record.
C33_NewSessionStartsEmpty ==
    (last.op = "Mount" /\ ~last.ok) => messages = <<>>

\* C34: the widget never sends a query under an expired session: right after a
\* send that issued a request, the current time is before the expires_at of the
\* in-memory session whose id the request carries.
C34_NoQueryUnderExpiredSession ==
    (last.op \in {"PressEnter", "ClickSend"} /\ last.ok)
    => LET s == Get(session)
           expiresAt == IF "d" \in DOMAIN s.expires_at
                        THEN s.expires_at
                        ELSE NewDate(s.expires_at)
       IN  /\ inflight[Len(inflight)].request.body.session_id = s.id
           /\ DateLT(now, expiresAt)

\* C35: every session getSession() returns has a well-formed expires_at that is
\* later than the current time; a stored session whose expires_at is missing or
\* is no date is not returned.
C35_ReturnedSessionHasFutureExpiry ==
    (ret.op = "getSession" /\ IsSome(ret.session))
    => LET x == Get(ret.session).expires_at IN
       /\ x.date >= 0
       /\ x.date > now.d \/ (x.date = now.d /\ x.sec * 1000 + x.msec > now.ms)

\* C36: the column migration is idempotent: a run that directly follows a
\* successful run, no other client changing the table during either or between
\* them, sends no ALTER statement, changes no column at any of its steps and,
\* once connected, ends successfully. In every run the rename is sent only when
\* its SELECT finds softwareDevExperience, and hardwareExperience and
\* learningGoals are added only when their SELECTs find them missing.
C36_MigrationIdempotent ==
    [][/\ (migration'.pc = "alter" /\ migration.pc = "select")
            => LET sent == migration'.alters[Len(migration'.alters)] IN
               /\ sent = "RENAME softwareDevExperience"
                    => ColumnExists(userProfiles, "softwareDevExperience")
               /\ sent = "ADD hardwareExperience"
                    => ~ColumnExists(userProfiles, "hardwareExperience")
               /\ sent = "ADD learningGoals"
                    => ~ColumnExists(userProfiles, "learningGoals")
       /\ (/\ migration.pc \notin {"exited", "connect"}
           /\ migration.undisturbed /\ migration'.undisturbed
           /\ IsSome(migration.prev)
           /\ Get(migration.prev).ok /\ Get(migration.prev).undisturbed)
            => /\ migration'.alters = <<>>
               /\ userProfiles' = userProfiles
               /\ (ret'.op = "runMigration") => Get(ret'.outcome).ok]_vars

\* A run has just ended directly after one that had renamed the old column,
\* added the two missing ones and ended successfully, no other client changing
\* the table: it altered nothing, it ended successfully, and the table has the
\* three new columns and not the old.
C36_Witness ==
    /\ ret.op = "runMigration"
    /\ ret.prev = Some([alters |-> <<"RENAME softwareDevExperience",
                                     "ADD hardwareExperience", "ADD learningGoals">>,
                        ok |-> TRUE, undisturbed |-> TRUE])
    /\ Get(ret.outcome).ok
    /\ Get(ret.outcome).undisturbed
    /\ Get(ret.outcome).alters = <<>>
    /\ userProfiles = Some({"id", "softwareExperience", "hardwareExperience",
                            "learningGoals"})

====
